---- MODULE Spec2Model ----
(***************************************************************************)
(* Route-matching engine of ufiber: the pattern tree of the compiled       *)
(* matcher (src/src/router/reg-exp/node.ts), the prefix-tree router front  *)
(* (src/src/router/trie-tree/index.ts), the path utilities                 *)
(* (src/unnamed/part_019) and the Router that owns them                    *)
(* (src/src/router/index.ts).                                              *)
(*                                                                         *)
(* A path or a path template is a sequence of one-character strings, so    *)
(* "/a/:i" is << "/", "a", "/", ":", "i" >>.  The alphabet has no '{',     *)
(* '}', '#', '@', '$' or '%', so the brace-group pass of Trie.insert and   *)
(* the '.*$' clause of Trie.buildRegExp never fire.                        *)
(***************************************************************************)
EXTENDS Integers, Sequences, FiniteSets, TLC

\* ------------------------------------------------------------------------
\* Bounds
\* ------------------------------------------------------------------------
MaxRoutes == 2

\* ------------------------------------------------------------------------
\* Program constants
\* ------------------------------------------------------------------------
LABEL_REG_EXP_STR == "[^/]+"
ONLY_WILDCARD_REG_EXP_STR == ".*"
TAIL_WILDCARD_REG_EXP_STR == "(?:|/.*)"
PATH_ERROR == "PATH_ERROR"
\* the lower-case constant METHOD_NAME_ALL_LOWERCASE in the place of METHOD_NAME_ALL
METHOD_NAME_ALL_lowercase == "all"

METHOD_NAME_ALL == "ALL"

\* `undefined` of a numeric field (#index, #varIndex)
UNDEF == -1
\* `undefined` of a string slot (a capture group that did not participate)
UndefStr == << "undefined" >>

\* ------------------------------------------------------------------------
\* Generic sequence helpers
\* ------------------------------------------------------------------------
Range(s) == { s[i] : i \in DOMAIN s }

Contains(s, x) == \E i \in DOMAIN s : s[i] = x

\* Array.prototype.indexOf, 1-based; 0 when absent
IndexOf(s, x) == IF Contains(s, x) THEN CHOOSE i \in DOMAIN s : s[i] = x /\ \A j \in 1..(i-1) : s[j] # x ELSE 0

RECURSIVE Flatten(_)
Flatten(ss) == IF ss = << >> THEN << >> ELSE Head(ss) \o Flatten(Tail(ss))

\* String.prototype.slice(from), 1-based
DropFirst(s, n) == SubSeq(s, n + 1, Len(s))

\* ------------------------------------------------------------------------
\* Trie.insert tokenizer: path.match(/(?::[^\/]+)|(?:\/\*$)|./g)
\* ------------------------------------------------------------------------
\* length of the maximal run of non-'/' characters starting at position i
RECURSIVE NonSlashRun(_, _)
NonSlashRun(path, i) == IF i > Len(path) \/ path[i] = "/" THEN 0 ELSE 1 + NonSlashRun(path, i + 1)

RECURSIVE TokensFrom(_, _)
TokensFrom(path, i) ==
  IF i > Len(path) THEN << >>
  ELSE IF path[i] = ":" /\ NonSlashRun(path, i + 1) > 0
       THEN LET n == 1 + NonSlashRun(path, i + 1) IN << SubSeq(path, i, i + n - 1) >> \o TokensFrom(path, i + n)
  ELSE IF path[i] = "/" /\ i + 1 = Len(path) /\ path[i + 1] = "*"
       THEN << << "/", "*" >> >>
  ELSE << << path[i] >> >> \o TokensFrom(path, i + 1)

Tokenize(path) == TokensFrom(path, 1)

\* ------------------------------------------------------------------------
\* Pattern tree of the compiled matcher (class Node, class Trie)
\* A tree is a function from node positions (the sequence of child keys
\* leading to the node) to [index, varIndex, keys]; keys lists the child
\* keys in insertion order (Object.keys order).
\* ------------------------------------------------------------------------
EmptyNode == [index |-> UNDEF, varIndex |-> UNDEF, keys |-> << >>]

NewTrie == [tree |-> (<< >> :> EmptyNode), varIndex |-> 0]

IsWildcardKey(k) == k = ONLY_WILDCARD_REG_EXP_STR \/ k = TAIL_WILDCARD_REG_EXP_STR

\* String length of a child key
KeyLen(k) ==
  IF k = LABEL_REG_EXP_STR THEN 5 ELSE IF k = ONLY_WILDCARD_REG_EXP_STR THEN 2 ELSE IF k = TAIL_WILDCARD_REG_EXP_STR THEN 8
  ELSE IF k = "a+" THEN 2 ELSE IF k = "(?:a)" THEN 5 ELSE 1

\* The constraint of a parameter token ':name{regexp}', by
\* token.match(/^\:([^\{\}]+)(?:\{(.+)\})?$/): the position of the opening
\* brace (0 when the token has none)
RECURSIVE BraceAt(_, _)
BraceAt(token, i) == IF i > Len(token) THEN 0 ELSE IF token[i] = "{" THEN i ELSE BraceAt(token, i + 1)

HasConstraint(token) == BraceAt(token, 1) > 2 /\ BraceAt(token, 1) + 1 < Len(token) /\ token[Len(token)] = "}"

\* pattern[1] and pattern[2] of a parameter token
NameIn(token) == IF HasConstraint(token) THEN SubSeq(token, 2, BraceAt(token, 1) - 1) ELSE Tail(token)

ConstraintIn(token) == SubSeq(token, BraceAt(token, 1) + 1, Len(token) - 1)

\* regexpStr.replace(/^\((?!\?:)(?=[^)]+\)$)/, '(?:'): (a|b) => (?:a|b)
NonCapturing(re) ==
  IF /\ Len(re) >= 3 /\ re[1] = "(" /\ ~(re[2] = "?" /\ re[3] = ":")
     /\ re[Len(re)] = ")" /\ \A i \in 2..(Len(re) - 1) : re[i] # ")"
  THEN << "(", "?", ":" >> \o Tail(re)
  ELSE re

\* /\((?!\?:)/.test(regexpStr): a capturing group is left
HasCapturingGroup(re) ==
  \E i \in DOMAIN re : re[i] = "(" /\ ~(i + 2 <= Len(re) /\ re[i + 1] = "?" /\ re[i + 2] = ":")

\* a constraint the insertion refuses with PATH_ERROR
ConstraintRefused(re) == re = << ".", "*" >> \/ HasCapturingGroup(NonCapturing(re))

\* the string of an accepted constraint, the child key it is stored under
ConstraintKey(re) ==
  CASE re = << "a", "+" >> -> "a+"
    [] re = << "(", "?", ":", "a", ")" >> -> "(?:a)"
    [] OTHER -> ONLY_WILDCARD_REG_EXP_STR

\* PatternOf taking the whole token, colon included, as the parameter name
PatternOf_wholeToken(token, restTokens) ==
  IF token = << "*" >>
  THEN [isPattern |-> TRUE, name |-> << >>, regexpStr |-> IF restTokens = << >> THEN ONLY_WILDCARD_REG_EXP_STR ELSE LABEL_REG_EXP_STR,
        refused |-> FALSE]
  ELSE IF token = << "/", "*" >>
  THEN [isPattern |-> TRUE, name |-> << >>, regexpStr |-> TAIL_WILDCARD_REG_EXP_STR, refused |-> FALSE]
  ELSE IF Len(token) >= 2 /\ token[1] = ":"
  THEN [isPattern |-> TRUE, name |-> token, regexpStr |-> LABEL_REG_EXP_STR, refused |-> FALSE]
  ELSE [isPattern |-> FALSE, name |-> << >>, regexpStr |-> token[1], refused |-> FALSE]

\* The `pattern` computed at the head of Node.insert: whether the token is a
\* pattern, its parameter name ('' for wildcards), its regexp string, and
\* whether its constraint is refused (lines 82-91).
PatternOf(token, restTokens) ==
  IF token = << "*" >>
  THEN [isPattern |-> TRUE, name |-> << >>, regexpStr |-> IF restTokens = << >> THEN ONLY_WILDCARD_REG_EXP_STR ELSE LABEL_REG_EXP_STR,
        refused |-> FALSE]
  ELSE IF token = << "/", "*" >>
  THEN [isPattern |-> TRUE, name |-> << >>, regexpStr |-> TAIL_WILDCARD_REG_EXP_STR, refused |-> FALSE]
  ELSE IF Len(token) >= 2 /\ token[1] = ":" /\ HasConstraint(token)
  THEN [isPattern |-> TRUE, name |-> NameIn(token), regexpStr |-> ConstraintKey(NonCapturing(ConstraintIn(token))),
        refused |-> ConstraintRefused(ConstraintIn(token))]
  ELSE IF Len(token) >= 2 /\ token[1] = ":"
  THEN [isPattern |-> TRUE, name |-> Tail(token), regexpStr |-> LABEL_REG_EXP_STR, refused |-> FALSE]
  ELSE [isPattern |-> FALSE, name |-> << >>, regexpStr |-> token[1], refused |-> FALSE]

InsertOutcome(thrown, st, paramMap) == [thrown |-> thrown, tree |-> st.tree, varIndex |-> st.varIndex, paramMap |-> paramMap]

\* Node.insert on the node at position np of st.tree; st.varIndex is the
\* shared context.varIndex.  The outcome carries the tree, the counter and
\* the caller's parameter list as the call leaves them, thrown or not.
\* PatternBlocked looking at the siblings as the literal branch does
PatternBlocked_asLiteral(keys) == \E k \in Range(keys) : KeyLen(k) > 1 /\ ~IsWildcardKey(k)

\* a new pattern child is refused when a sibling other than a wildcard exists
PatternBlocked(keys) == \E k \in Range(keys) : ~IsWildcardKey(k)

\* LiteralBlocked without the exemption of wildcard siblings
LiteralBlocked_noExemption(keys) == \E k \in Range(keys) : KeyLen(k) > 1

\* a new literal child is refused when a pattern sibling other than a
\* wildcard exists
LiteralBlocked(keys) == \E k \in Range(keys) : KeyLen(k) > 1 /\ ~IsWildcardKey(k)

\* `if (this.#index !== undefined)` never finding the index taken
IndexTaken_never(node) == FALSE

\* `if (this.#index !== undefined)`: the node is the end of a route already
IndexTaken(node) == node.index # UNDEF

\* `if (pathErrorCheckOnly) return` never returning
DryReturn_never(pathErrorCheckOnly) == FALSE

\* `if (pathErrorCheckOnly) return`, before anything is created or assigned
DryReturn(pathErrorCheckOnly) == pathErrorCheckOnly

RECURSIVE NodeInsert(_, _, _, _, _, _)
NodeInsert(st, np, tokens, index, paramMap, pathErrorCheckOnly) ==
  LET node == st.tree[np] IN
  IF tokens = << >>
  THEN IF IndexTaken(node) THEN InsertOutcome(TRUE, st, paramMap)
       ELSE IF DryReturn(pathErrorCheckOnly) THEN InsertOutcome(FALSE, st, paramMap)
       ELSE InsertOutcome(FALSE, [st EXCEPT !.tree[np].index = index], paramMap)
  ELSE
    LET token == Head(tokens)
        restTokens == Tail(tokens)
        pattern == PatternOf(token, restTokens)
        key == pattern.regexpStr
        cp == Append(np, key)
        exists == Contains(node.keys, key)
        blocked == IF pattern.isPattern THEN PatternBlocked(node.keys) ELSE LiteralBlocked(node.keys)
        takesVar == pattern.isPattern /\ pattern.name # << >>
        created == [tree |-> (cp :> [EmptyNode EXCEPT !.varIndex = IF takesVar THEN st.varIndex ELSE UNDEF])
                               @@ [st.tree EXCEPT ![np].keys = Append(node.keys, key)],
                    varIndex |-> IF takesVar THEN st.varIndex + 1 ELSE st.varIndex]
        st2 == IF exists THEN st ELSE created
        pm2 == IF ~pathErrorCheckOnly /\ takesVar THEN Append(paramMap, << pattern.name, st2.tree[cp].varIndex >>) ELSE paramMap
    IN IF pattern.refused THEN InsertOutcome(TRUE, st, paramMap)
       ELSE IF ~exists /\ blocked THEN InsertOutcome(TRUE, st, paramMap)
       ELSE IF ~exists /\ DryReturn(pathErrorCheckOnly) THEN InsertOutcome(FALSE, st, paramMap)
       ELSE NodeInsert(st2, cp, restTokens, index, pm2, pathErrorCheckOnly)

\* Trie.insert: tokenize, then insert at the root with a fresh parameter list.
TrieInsert(st, path, index, pathErrorCheckOnly) == NodeInsert(st, << >>, Tokenize(path), index, << >>, pathErrorCheckOnly)

\* ------------------------------------------------------------------------
\* compareKey and Node.buildRegExpStr / Trie.buildRegExp
\* ------------------------------------------------------------------------
\* UTF-16 code of the first character of a key (JavaScript's `a < b` on the
\* keys of this model: two distinct keys never share their first character)
KeyCode(k) ==
  CASE k = "*" -> 42 [] k = "/" -> 47 [] k = ":" -> 58 [] k = "?" -> 63
    [] k = "a" -> 97 [] k = "b" -> 98 [] k = "i" -> 105 [] k = "u" -> 117 [] k = "v" -> 118 [] k = "x" -> 120
    [] k = ONLY_WILDCARD_REG_EXP_STR -> 46 [] k = TAIL_WILDCARD_REG_EXP_STR -> 40 [] k = LABEL_REG_EXP_STR -> 91
    [] k = "a+" -> 97 [] k = "(?:a)" -> 40
    [] OTHER -> 0

compareKey(a, b) ==
  IF KeyLen(a) = 1 THEN (IF KeyLen(b) = 1 THEN (IF KeyCode(a) < KeyCode(b) THEN -1 ELSE 1) ELSE -1)
  ELSE IF KeyLen(b) = 1 THEN 1
  ELSE IF IsWildcardKey(a) THEN 1
  ELSE IF IsWildcardKey(b) THEN -1
  ELSE IF a = LABEL_REG_EXP_STR THEN 1
  ELSE IF b = LABEL_REG_EXP_STR THEN -1
  ELSE IF KeyLen(a) = KeyLen(b) THEN (IF KeyCode(a) < KeyCode(b) THEN -1 ELSE 1)
  ELSE KeyLen(b) - KeyLen(a)

\* Array.prototype.sort(compareKey) as a stable insertion sort: each key is
\* placed after the last already-placed key it does not precede.
RECURSIVE InsertSorted(_, _)
InsertSorted(sorted, k) ==
  IF sorted = << >> THEN << k >>
  ELSE IF compareKey(k, sorted[Len(sorted)]) < 0
       THEN Append(InsertSorted(SubSeq(sorted, 1, Len(sorted) - 1), k), sorted[Len(sorted)])
       ELSE Append(sorted, k)

RECURSIVE SortKeys(_)
SortKeys(keys) == IF keys = << >> THEN << >> ELSE InsertSorted(SortKeys(SubSeq(keys, 1, Len(keys) - 1)), keys[Len(keys)])

\* The '#index' and '@varIndex' markers of Node.buildRegExpStr(), in the
\* order in which they occur in the generated string: the node's own
\* '#index' first, then per child (sorted) its '@varIndex' and its subtree.
RECURSIVE Markers(_, _)
RECURSIVE ChildMarkers(_, _, _)
Markers(tree, np) ==
  (IF tree[np].index # UNDEF THEN << [kind |-> "#", n |-> tree[np].index] >> ELSE << >>)
  \o ChildMarkers(tree, np, SortKeys(tree[np].keys))

ChildMarkers(tree, np, keys) ==
  IF keys = << >> THEN << >>
  ELSE LET cp == Append(np, Head(keys)) IN
       (IF tree[cp].varIndex # UNDEF THEN << [kind |-> "@", n |-> tree[cp].varIndex] >> ELSE << >>)
       \o Markers(tree, cp) \o ChildMarkers(tree, np, Tail(keys))

\* buildRegExpStr() of the root is '' iff the root has no index and no child
RegExpStrIsEmpty(tree) == tree[<< >>].index = UNDEF /\ tree[<< >>].keys = << >>

\* Trie.buildRegExp: the post-pass numbers the markers left to right;
\* indexReplacementMap[capture] = handler index,
\* paramReplacementMap[varIndex] = capture.
\* The compiled expression keeps the tree with the children of every node
\* in the sorted order of buildRegExpStr, and the markers.
BuildRegExp(tree) ==
  LET ms == IF RegExpStrIsEmpty(tree) THEN << >> ELSE Markers(tree, << >>) IN
  [ tree |-> [np \in DOMAIN tree |-> [tree[np] EXCEPT !.keys = SortKeys(@)]],
    never |-> RegExpStrIsEmpty(tree),
    markers |-> ms,
    captures |-> Len(ms),
    indexReplacementMap |-> [c \in { i \in DOMAIN ms : ms[i].kind = "#" } |-> ms[c].n],
    paramReplacementMap |-> [v \in { ms[i].n : i \in { j \in DOMAIN ms : ms[j].kind = "@" } } |->
                               CHOOSE c \in DOMAIN ms : ms[c].kind = "@" /\ ms[c].n = v /\ \A d \in DOMAIN ms : (ms[d].kind = "@" /\ ms[d].n = v) => d <= c] ]

\* ------------------------------------------------------------------------
\* Executing the generated expression: new RegExp(`^${regexp}`) on a path.
\* Alternatives are tried left to right, quantifiers are greedy and give
\* back one character at a time; the first complete match wins.
\* ------------------------------------------------------------------------
NoMatch == [ok |-> FALSE, term |-> << >>, caps |-> << >>]

\* lengths a child key may consume at position pos, in the order tried
RECURSIVE CountDown(_, _)
CountDown(hi, lo) == IF hi < lo THEN << >> ELSE << hi >> \o CountDown(hi - 1, lo)

\* KeyLengths running the tail wildcard as '.*', without its leading '/'
KeyLengths_tailAsOnly(k, path, pos) ==
  LET remaining == Len(path) - pos + 1 IN
  IF k = LABEL_REG_EXP_STR THEN CountDown(NonSlashRun(path, pos), 1)
  ELSE IF k = ONLY_WILDCARD_REG_EXP_STR \/ k = TAIL_WILDCARD_REG_EXP_STR THEN CountDown(remaining, 0)
  ELSE IF remaining >= 1 /\ path[pos] = k THEN << 1 >> ELSE << >>

KeyLengths(k, path, pos) ==
  LET remaining == Len(path) - pos + 1 IN
  IF k = LABEL_REG_EXP_STR THEN CountDown(NonSlashRun(path, pos), 1)
  ELSE IF k = ONLY_WILDCARD_REG_EXP_STR THEN CountDown(remaining, 0)
  ELSE IF k = TAIL_WILDCARD_REG_EXP_STR THEN << 0 >> \o (IF remaining >= 1 /\ path[pos] = "/" THEN CountDown(remaining, 1) ELSE << >>)
  ELSE IF remaining >= 1 /\ path[pos] = k THEN << 1 >> ELSE << >>

RECURSIVE ExecNode(_, _, _, _)
RECURSIVE ExecChildren(_, _, _, _, _)
RECURSIVE ExecLengths(_, _, _, _, _, _)
\* ExecNode without the '$' of the terminal '$()': a handler index ends the
\* match wherever it is reached
ExecNode_noAnchor(tree, np, path, pos) ==
  IF tree[np].index # UNDEF
  THEN [ok |-> TRUE, term |-> np, caps |-> << >>]
  ELSE ExecChildren(tree, np, tree[np].keys, path, pos)

ExecNode(tree, np, path, pos) ==
  IF tree[np].index # UNDEF /\ pos = Len(path) + 1
  THEN [ok |-> TRUE, term |-> np, caps |-> << >>]
  ELSE ExecChildren(tree, np, tree[np].keys, path, pos)

ExecChildren(tree, np, keys, path, pos) ==
  IF keys = << >> THEN NoMatch
  ELSE LET r == ExecLengths(tree, np, Head(keys), KeyLengths(Head(keys), path, pos), path, pos) IN
       IF r.ok THEN r ELSE ExecChildren(tree, np, Tail(keys), path, pos)

ExecLengths(tree, np, k, lens, path, pos) ==
  IF lens = << >> THEN NoMatch
  ELSE LET cp == Append(np, k)
           n == Head(lens)
           r == ExecNode(tree, cp, path, pos + n)
       IN IF r.ok
          THEN IF tree[cp].varIndex # UNDEF
               THEN [r EXCEPT !.caps = (tree[cp].varIndex :> SubSeq(path, pos, pos + n - 1)) @@ r.caps]
               ELSE r
          ELSE ExecLengths(tree, np, k, Tail(lens), path, pos)

\* path.match(regexp): the match array (index 0 the whole match, then one
\* slot per capture group) or NoMatch.  The group of the terminal '$()'
\* holds '', a parameter group on the matching branch holds its text, every
\* other group is undefined.
RegExpExec(re, path) ==
  IF re.never THEN NoMatch
  ELSE LET r == ExecNode(re.tree, << >>, path, 1)
           ms == re.markers
       IN IF ~r.ok THEN NoMatch
          ELSE [ok |-> TRUE, term |-> r.term,
                caps |-> [c \in 0..Len(ms) |->
                            IF c = 0 THEN path
                            ELSE IF ms[c].kind = "#" THEN (IF ms[c].n = re.tree[r.term].index THEN << >> ELSE UndefStr)
                            ELSE IF ms[c].n \in DOMAIN r.caps THEN r.caps[ms[c].n] ELSE UndefStr]]

\* ------------------------------------------------------------------------
\* Path utilities (utils/url)
\* ------------------------------------------------------------------------
\* String.prototype.split('/')
RECURSIVE SplitFrom(_, _, _)
SplitFrom(path, i, cur) ==
  IF i > Len(path) THEN << cur >>
  ELSE IF path[i] = "/" THEN << cur >> \o SplitFrom(path, i + 1, << >>)
  ELSE SplitFrom(path, i + 1, Append(cur, path[i]))

Split(path) == SplitFrom(path, 1, << >>)

\* splitPath: split on '/', dropping the empty string before a leading '/'
splitPath(path) == LET paths == Split(path) IN IF paths[1] = << >> THEN Tail(paths) ELSE paths

\* String.prototype.replace('?', ''): the first '?' is removed
RemoveFirstQuestionMark(seg) ==
  LET i == IndexOf(seg, "?") IN IF i = 0 THEN seg ELSE SubSeq(seg, 1, i - 1) \o SubSeq(seg, i + 1, Len(seg))

\* [...new Set(results)]: first occurrences, in order
RECURSIVE Dedupe(_)
Dedupe(s) ==
  IF s = << >> THEN << >>
  ELSE LET front == Dedupe(SubSeq(s, 1, Len(s) - 1)) IN IF Contains(front, s[Len(s)]) THEN front ELSE Append(front, s[Len(s)])

\* The loop of checkOptionalParameter over the segments; acc = [basePath, results]
RECURSIVE OptionalLoop(_, _)
OptionalLoop(segments, acc) ==
  IF segments = << >> THEN acc
  ELSE LET segment == Head(segments)
           next == IF segment # << >> /\ ~Contains(segment, ":")
                   THEN [acc EXCEPT !.basePath = acc.basePath \o << "/" >> \o segment]
                   ELSE IF Contains(segment, ":")
                   THEN IF Contains(segment, "?")
                        THEN LET b2 == acc.basePath \o << "/" >> \o RemoveFirstQuestionMark(segment) IN
                             [basePath |-> b2,
                              results |-> acc.results \o << (IF acc.basePath = << >> THEN << "/" >> ELSE acc.basePath), b2 >>]
                        ELSE [acc EXCEPT !.basePath = acc.basePath \o << "/" >> \o segment]
                   ELSE acc
       IN OptionalLoop(Tail(segments), next)

\* checkOptionalParameter never expanding
checkOptionalParameter_never(path) == [isNull |-> TRUE, results |-> << >>]

\* checkOptionalParameter: null, or the list of expanded templates
checkOptionalParameter(path) ==
  IF path = << >> \/ path[Len(path)] # "?" \/ ~Contains(path, ":")
  THEN [isNull |-> TRUE, results |-> << >>]
  ELSE [isNull |-> FALSE, results |-> Dedupe(OptionalLoop(Split(path), [basePath |-> << >>, results |-> << >>]).results)]

\* mergePath(base, sub)
mergePath(base, sub) ==
  (IF base # << >> /\ base[1] = "/" THEN << >> ELSE << "/" >>) \o base \o
  (IF sub = << "/" >> THEN << >>
   ELSE (IF base # << >> /\ base[Len(base)] = "/" THEN << >> ELSE << "/" >>) \o
        (IF sub # << >> /\ sub[1] = "/" THEN DropFirst(sub, 1) ELSE sub))

\* ------------------------------------------------------------------------
\* Percent-decoding (decodeURIComponent, tryDecode)
\* A decoded character is a one-element string: an ASCII character as
\* itself ("<hh>" for a control character), any other code point as "U+n".
\* ------------------------------------------------------------------------
HexDigits == << "0", "1", "2", "3", "4", "5", "6", "7", "8", "9", "a", "b", "c", "d", "e", "f" >>
HexDigitsUpper == << "0", "1", "2", "3", "4", "5", "6", "7", "8", "9", "A", "B", "C", "D", "E", "F" >>

IsHex(c) == Contains(HexDigits, c) \/ Contains(HexDigitsUpper, c)

HexValue(c) == (IF Contains(HexDigits, c) THEN IndexOf(HexDigits, c) ELSE IndexOf(HexDigitsUpper, c)) - 1

\* whether %XX stands at position i of s
IsEscapeAt(s, i) == i + 2 <= Len(s) /\ s[i] = "%" /\ IsHex(s[i + 1]) /\ IsHex(s[i + 2])

ByteAt(s, i) == 16 * HexValue(s[i + 1]) + HexValue(s[i + 2])

AsciiChars ==
  << 
     "<00>", "<01>", "<02>", "<03>", "<04>", "<05>", "<06>", "<07>", "<08>", "<09>", "<0a>", "<0b>", "<0c>", "<0d>", "<0e>", "<0f>",
     "<10>", "<11>", "<12>", "<13>", "<14>", "<15>", "<16>", "<17>", "<18>", "<19>", "<1a>", "<1b>", "<1c>", "<1d>", "<1e>", "<1f>",
     " ", "!", "<22>", "#", "$", "%", "&", "'", "(", ")", "*", "+", ",", "-", ".", "/",
     "0", "1", "2", "3", "4", "5", "6", "7", "8", "9", ":", ";", "<", "=", ">", "?",
     "@", "A", "B", "C", "D", "E", "F", "G", "H", "I", "J", "K", "L", "M", "N", "O",
     "P", "Q", "R", "S", "T", "U", "V", "W", "X", "Y", "Z", "[", "<5c>", "]", "^", "_",
     "<60>", "a", "b", "c", "d", "e", "f", "g", "h", "i", "j", "k", "l", "m", "n", "o",
     "p", "q", "r", "s", "t", "u", "v", "w", "x", "y", "z", "{", "|", "}", "~", "<7f>" >>

\* number of continuation bytes a UTF-8 lead byte announces; -1 for a byte
\* that cannot lead
ContinuationCount(b) ==
  IF b >= 194 /\ b <= 223 THEN 1 ELSE IF b >= 224 /\ b <= 239 THEN 2 ELSE IF b >= 240 /\ b <= 244 THEN 3 ELSE UNDEF

IsContinuationAt(s, i) == IsEscapeAt(s, i) /\ ByteAt(s, i) >= 128 /\ ByteAt(s, i) <= 191

RECURSIVE CodePoint(_, _, _, _)
CodePoint(s, i, n, acc) == IF n = 0 THEN acc ELSE CodePoint(s, i + 3, n - 1, acc * 64 + (ByteAt(s, i) % 64))

LeadBits(b, n) == IF n = 1 THEN b % 32 ELSE IF n = 2 THEN b % 16 ELSE b % 8

ValidCodePoint(cp, n) ==
  IF n = 1 THEN cp >= 128
  ELSE IF n = 2 THEN cp >= 2048 /\ ~(cp >= 55296 /\ cp <= 57343)
  ELSE cp >= 65536 /\ cp <= 1114111

Decoded(thrown, out) == [thrown |-> thrown, out |-> out]

\* decodeURIComponent from position i on: thrown is the URIError
RECURSIVE decodeURIComponentFrom(_, _)
decodeURIComponentFrom(s, i) ==
  LET Then(c, rest) == IF rest.thrown THEN rest ELSE Decoded(FALSE, << c >> \o rest.out)
      Multi(b, n) ==
        IF n = UNDEF \/ \E j \in 1..n : ~IsContinuationAt(s, i + 3 * j) THEN Decoded(TRUE, << >>)
        ELSE IF ~ValidCodePoint(CodePoint(s, i + 3, n, LeadBits(b, n)), n) THEN Decoded(TRUE, << >>)
        ELSE Then("U+" \o ToString(CodePoint(s, i + 3, n, LeadBits(b, n))), decodeURIComponentFrom(s, i + 3 * (n + 1)))
      Escape(b) == IF b < 128 THEN Then(AsciiChars[b + 1], decodeURIComponentFrom(s, i + 3)) ELSE Multi(b, ContinuationCount(b))
  IN IF i > Len(s) THEN Decoded(FALSE, << >>)
     ELSE IF s[i] # "%" THEN Then(s[i], decodeURIComponentFrom(s, i + 1))
     ELSE IF ~IsEscapeAt(s, i) THEN Decoded(TRUE, << >>)
     ELSE Escape(ByteAt(s, i))

decodeURIComponent(s) == decodeURIComponentFrom(s, 1)

\* the end of the run (?:%[0-9A-Fa-f]{2})+ that starts at position i
RECURSIVE EscapeRunEnd(_, _)
EscapeRunEnd(s, i) == IF IsEscapeAt(s, i) THEN EscapeRunEnd(s, i + 3) ELSE i - 1

\* str.replace(/(?:%[0-9A-Fa-f]{2})+/g, match => decoder(match) or match)
RECURSIVE ReplaceRuns(_, _)
ReplaceRuns(s, i) ==
  LET Replaced(run, d, rest) == (IF d.thrown THEN run ELSE d.out) \o rest
      Run(j) == Replaced(SubSeq(s, i, j), decodeURIComponent(SubSeq(s, i, j)), ReplaceRuns(s, j + 1))
  IN IF i > Len(s) THEN << >>
     ELSE IF IsEscapeAt(s, i) THEN Run(EscapeRunEnd(s, i))
     ELSE << s[i] >> \o ReplaceRuns(s, i + 1)

\* tryDecode(str, decodeURIComponent)
tryDecode(str) ==
  LET Tried(d) == IF d.thrown THEN ReplaceRuns(str, 1) ELSE d.out IN Tried(decodeURIComponent(str))

\* ------------------------------------------------------------------------
\* Match results (type Result<T>)
\*   stash shape : handlers carry name -> capture ordinal, stash holds values
\*   params shape: handlers carry name -> value, no stash
\* ------------------------------------------------------------------------
NoStash == << >>

StashResult(handlers, stash) == [kind |-> "ok", shape |-> "stash", handlers |-> handlers, stash |-> stash, err |-> ""]

ParamsResult(handlers) == [kind |-> "ok", shape |-> "params", handlers |-> handlers, stash |-> NoStash, err |-> ""]

ErrorResult(err) == [kind |-> "error", shape |-> "", handlers |-> << >>, stash |-> NoStash, err |-> err]

NoResult == [kind |-> "none", shape |-> "", handlers |-> << >>, stash |-> NoStash, err |-> ""]

UnsupportedPathError == "UnsupportedPathError"
\* MESSAGE_MATCHER_IS_ALREADY_BUILT carrying the selector's fatal-error text
MESSAGE_MATCHER_IS_ALREADY_BUILT_fatal == "Fatal error"
MESSAGE_MATCHER_IS_ALREADY_BUILT == "Can not add a route since the matcher is already built."

HandlersOf(res) == [i \in DOMAIN res.handlers |-> res.handlers[i].h]

\* ------------------------------------------------------------------------
\* Compiled matcher (RegExpRouter), around Trie
\* ------------------------------------------------------------------------
RegExpRouterNew == [regs |-> << >>, built |-> FALSE, matchers |-> << >>]

\* add(): refused once the matcher is built, otherwise the route is recorded
RegExpRouterAdd(rx, method, path, handler) ==
  IF rx.built THEN [thrown |-> TRUE, err |-> MESSAGE_MATCHER_IS_ALREADY_BUILT, router |-> rx]
  ELSE [thrown |-> FALSE, err |-> "", router |-> [rx EXCEPT !.regs = Append(rx.regs, [method |-> method, path |-> path, handler |-> handler])]]

\* number of '/:' occurrences in a template
RECURSIVE CountParams(_)
CountParams(path) ==
  IF Len(path) < 2 THEN 0
  ELSE (IF path[1] = "/" /\ path[2] = ":" THEN 1 ELSE 0) + CountParams(Tail(path))

EndsWithStar(path) == path # << >> /\ path[Len(path)] = "*"

IsPrefixOf(p, q) == Len(p) <= Len(q) /\ SubSeq(q, 1, Len(p)) = p

\* whether the wildcard template w covers the template text p:
\* '*' covers everything, 'prefix/*' covers 'prefix' and 'prefix/...'
WildcardCovers(w, p) ==
  IF w = << "*" >> THEN TRUE
  ELSE IF Len(w) >= 2 /\ w[Len(w) - 1] = "/"
       THEN LET prefix == SubSeq(w, 1, Len(w) - 2) IN p = prefix \/ IsPrefixOf(Append(prefix, "/"), p)
       ELSE p = w

\* The concrete entries one registration contributes: a trailing-wildcard
\* template is middleware; any other template is a route, expanded when it
\* ends in an optional parameter.
RegEntries(reg) ==
  LET path == IF reg.path = << "/", "*" >> THEN << "*" >> ELSE reg.path
      paramCount == CountParams(path)
  IN IF EndsWithStar(path)
     THEN << [mw |-> TRUE, path |-> path, handler |-> reg.handler, paramCount |-> paramCount] >>
     ELSE LET opt == checkOptionalParameter(path)
              paths == IF opt.isNull THEN << path >> ELSE opt.results
          IN [i \in DOMAIN paths |-> [mw |-> FALSE, path |-> paths[i], handler |-> reg.handler, paramCount |-> paramCount - Len(paths) + i]]

RECURSIVE EntriesOf(_, _)
EntriesOf(regs, methods) ==
  IF regs = << >> THEN << >>
  ELSE (IF Head(regs).method \in methods THEN RegEntries(Head(regs)) ELSE << >>) \o EntriesOf(Tail(regs), methods)

\* HandlersFor attaching the handlers of every prefix of p
HandlersFor_prefix(entries, p) ==
  SelectSeq(entries, LAMBDA e : IsPrefixOf(e.path, p) \/ (e.mw /\ WildcardCovers(e.path, p)))

\* handlers attached to the path p for a method: those registered for p and
\* those of the middleware covering p, in registration order
HandlersFor(entries, p) ==
  SelectSeq(entries, LAMBDA e : e.path = p \/ (e.mw /\ WildcardCovers(e.path, p)))

\* the preprocessed routes of one method: middleware paths, then route paths
PreprocessedRoutes(entries) ==
  LET mwPaths == Dedupe([i \in DOMAIN SelectSeq(entries, LAMBDA e : e.mw) |-> SelectSeq(entries, LAMBDA e : e.mw)[i].path])
      rtPaths == Dedupe([i \in DOMAIN SelectSeq(entries, LAMBDA e : ~e.mw) |-> SelectSeq(entries, LAMBDA e : ~e.mw)[i].path])
      paths == mwPaths \o rtPaths
  IN [i \in DOMAIN paths |-> [path |-> paths[i], handlers |-> HandlersFor(entries, paths[i])]]

\* !/\*|\/:/.test(path)
IsStaticPath(path) == ~Contains(path, "*") /\ CountParams(path) = 0

\* dynamic routes by ascending template length (stable), static routes last
RECURSIVE InsertByLength(_, _)
InsertByLength(sorted, r) ==
  IF sorted = << >> THEN << r >>
  ELSE IF Len(r.path) < Len(sorted[Len(sorted)].path)
       THEN Append(InsertByLength(SubSeq(sorted, 1, Len(sorted) - 1), r), sorted[Len(sorted)])
       ELSE Append(sorted, r)

RECURSIVE SortByLength(_)
SortByLength(rs) == IF rs = << >> THEN << >> ELSE InsertByLength(SortByLength(SubSeq(rs, 1, Len(rs) - 1)), rs[Len(rs)])

SortRoutes(routes) ==
  SortByLength(SelectSeq(routes, LAMBDA r : ~IsStaticPath(r.path))) \o SelectSeq(routes, LAMBDA r : IsStaticPath(r.path))

\* name -> varIndex from the first paramCount pairs of the route's
\* parameter list (the first pair of a name wins)
ParamIndexMapOf(paramAssoc, paramCount) ==
  LET n == IF paramCount > Len(paramAssoc) THEN Len(paramAssoc) ELSE paramCount
      names == { paramAssoc[i][1] : i \in 1..n }
  IN [name \in names |-> paramAssoc[CHOOSE i \in 1..n : paramAssoc[i][1] = name /\ \A k \in 1..(i-1) : paramAssoc[k][1] # name][2]]

\* Insert the sorted routes one by one: a static route goes to the static
\* map and is only probed (dry run) against the tree, a dynamic route takes
\* the next handler index and is inserted.  acc = [thrown, trie, j, handlerData, staticMap]
RECURSIVE BuildLoop(_, _)
BuildLoop(routes, acc) ==
  IF routes = << >> \/ acc.thrown THEN acc
  ELSE LET r == Head(routes)
           pathErrorCheckOnly == IsStaticPath(r.path)
           j == IF pathErrorCheckOnly THEN acc.j ELSE acc.j + 1
           ins == TrieInsert(acc.trie, r.path, j, pathErrorCheckOnly)
           staticMap == IF pathErrorCheckOnly
                        THEN Append(acc.staticMap, [path |-> r.path, handlers |-> [i \in DOMAIN r.handlers |-> [h |-> r.handlers[i].handler, params |-> << >>]]])
                        ELSE acc.staticMap
           handlerData == IF pathErrorCheckOnly THEN acc.handlerData
                          ELSE Append(acc.handlerData, [i \in DOMAIN r.handlers |-> [h |-> r.handlers[i].handler, params |-> ParamIndexMapOf(ins.paramMap, r.handlers[i].paramCount)]])
       IN BuildLoop(Tail(routes),
                    [thrown |-> ins.thrown, trie |-> [tree |-> ins.tree, varIndex |-> ins.varIndex], j |-> j,
                     handlerData |-> handlerData, staticMap |-> staticMap])

\* The matcher of one method: the compiled expression, capture ordinal ->
\* handlers (parameter names mapped to capture ordinals) and the static map
BuildMatcher(entries) ==
  LET Compiled(b, re) ==
        [thrown |-> b.thrown,
         re |-> re,
         handlerMap |-> [c \in DOMAIN re.indexReplacementMap |->
                           LET hd == b.handlerData[re.indexReplacementMap[c] + 1] IN
                           [i \in DOMAIN hd |-> [h |-> hd[i].h, params |-> [name \in DOMAIN hd[i].params |-> IF hd[i].params[name] \in DOMAIN re.paramReplacementMap THEN re.paramReplacementMap[hd[i].params[name]] ELSE UNDEF]]]],
         staticMap |-> b.staticMap]
      Inserted(b) == Compiled(b, BuildRegExp(b.trie.tree))
  IN Inserted(BuildLoop(SortRoutes(PreprocessedRoutes(entries)), [thrown |-> FALSE, trie |-> NewTrie, j |-> -1, handlerData |-> << >>, staticMap |-> << >>]))

MethodsOf(regs) == { regs[i].method : i \in DOMAIN regs } \cup { METHOD_NAME_ALL }

\* the matchers of all registered methods (a method sees its own routes and
\* those registered under ALL)
BuildAllMatchers(regs) == [m \in MethodsOf(regs) |-> BuildMatcher(EntriesOf(regs, {m, METHOD_NAME_ALL}))]

\* the first '' among the capture slots 1..n of a match array
FirstEmptyCapture(caps) ==
  LET cs == { c \in DOMAIN caps : c >= 1 /\ caps[c] = << >> } IN
  IF cs = {} THEN 0 ELSE CHOOSE c \in cs : \A d \in cs : c <= d

\* the built match(): the matcher of the method, or the ALL matcher when the
\* method has none; the static map first, then the compiled expression
RegExpRouterLookup(matchers, method, path) ==
  LET matcher == IF method \in DOMAIN matchers THEN matchers[method] ELSE matchers[METHOD_NAME_ALL]
      statics == SelectSeq(matcher.staticMap, LAMBDA e : e.path = path)
      Executed(m) == IF ~m.ok THEN StashResult(<< >>, NoStash)
                     ELSE StashResult(matcher.handlerMap[FirstEmptyCapture(m.caps)], m.caps)
  IN IF statics # << >> THEN StashResult(statics[Len(statics)].handlers, NoStash)
     ELSE Executed(RegExpExec(matcher.re, path))

\* match(): the first call builds every matcher (raising the ambiguity
\* error when a route set cannot be compiled) and keeps them; later calls
\* only look up
RegExpRouterMatch(rx, method, path) ==
  IF rx.built THEN [router |-> rx, result |-> RegExpRouterLookup(rx.matchers, method, path)]
  ELSE LET Built(all) ==
             IF \E m \in DOMAIN all : all[m].thrown
             THEN [router |-> rx, result |-> ErrorResult(UnsupportedPathError)]
             ELSE [router |-> [rx EXCEPT !.built = TRUE, !.matchers = all], result |-> RegExpRouterLookup(all, method, path)]
       IN Built(BuildAllMatchers(rx.regs))

\* ------------------------------------------------------------------------
\* Prefix-tree matcher (TrieRouter and its tree)
\* A tree is a function from node positions (sequences of child keys) to
\* the handlers stored at the node; a child key is a literal segment, the
\* parameter child or the wildcard child.
\* ------------------------------------------------------------------------
\* getPattern not recognising the wildcard label
getPattern_noWildcard(label) ==
  IF Len(label) >= 2 /\ label[1] = ":" THEN [kind |-> "param", name |-> Tail(label)]
  ELSE [kind |-> "null", name |-> << >>]

\* getPattern(label): '*' is the wildcard, ':name' a parameter, else null
getPattern(label) ==
  IF label = << "*" >> THEN [kind |-> "wild", name |-> << >>]
  ELSE IF Len(label) >= 2 /\ label[1] = ":" THEN [kind |-> "param", name |-> Tail(label)]
  ELSE [kind |-> "null", name |-> << >>]

\* splitRoutingPath: without brace groups, the segments of splitPath
splitRoutingPath(routePath) == splitPath(routePath)

LiteralKey(segment) == [kind |-> "lit", text |-> segment]
ParamKey == [kind |-> "param", text |-> << >>]
WildKey == [kind |-> "wild", text |-> << >>]

SegmentKey(segment) ==
  LET pattern == getPattern(segment) IN
  IF pattern.kind = "wild" THEN WildKey ELSE IF pattern.kind = "param" THEN ParamKey ELSE LiteralKey(segment)

PrefixTreeNew == << >> :> << >>

\* node positions from the root to the node of the last segment
NodePositions(segments) == [d \in 0..Len(segments) |-> [i \in 1..d |-> SegmentKey(segments[i])]]

\* parameter name -> slot (the index of the segment that binds it)
ParamSlots(segments) ==
  LET slots == { i \in DOMAIN segments : getPattern(segments[i]).kind = "param" } IN
  [name \in { getPattern(segments[i]).name : i \in slots } |->
     CHOOSE i \in slots : getPattern(segments[i]).name = name /\ \A k \in slots : getPattern(segments[k]).name = name => k <= i]

\* insert(method, path, handler): create the nodes of the template's
\* segments and store the handler at the last one
PrefixTreeInsert(tree, method, path, handler) ==
  LET segments == splitRoutingPath(path)
      positions == NodePositions(segments)
      last == positions[Len(segments)]
      grown == [np \in DOMAIN tree \cup { positions[d] : d \in 0..Len(segments) } |-> IF np \in DOMAIN tree THEN tree[np] ELSE << >>]
  IN [grown EXCEPT ![last] = Append(@, [method |-> method, h |-> handler, slots |-> ParamSlots(segments)])]

\* handlers of a node that apply to the request method, with the
\* parameters bound to the path segments of their slots
Applicable(tree, np, method, segments) ==
  LET hs == SelectSeq(tree[np], LAMBDA e : e.method = method \/ e.method = METHOD_NAME_ALL) IN
  [i \in DOMAIN hs |-> [depth |-> Len(np), h |-> hs[i].h, params |-> [name \in DOMAIN hs[i].slots |-> segments[hs[i].slots[name]]]]]

\* Walk from the node np over the segments from position d+1 on: the
\* literal child first, then the parameter child, then the wildcard child
\* (which takes the whole remainder, also an empty one).  A walk succeeds
\* when it ends on handlers; every node on a successful walk contributes.
RECURSIVE Walk(_, _, _, _)
Walk(tree, np, method, segments) ==
  LET d == Len(np)
      own == Applicable(tree, np, method, segments)
      wp == Append(np, WildKey)
      wild == IF wp \in DOMAIN tree THEN [c \in DOMAIN Applicable(tree, wp, method, segments) |-> Applicable(tree, wp, method, segments)[c]] ELSE << >>
  IN IF d = Len(segments)
     THEN own \o wild
     ELSE LET seg == segments[d + 1]
              lp == Append(np, LiteralKey(seg))
              pp == Append(np, ParamKey)
              lit == IF lp \in DOMAIN tree THEN Walk(tree, lp, method, segments) ELSE << >>
              par == IF pp \in DOMAIN tree /\ seg # << >> THEN Walk(tree, pp, method, segments) ELSE << >>
              below == lit \o par \o wild
          IN IF below = << >> THEN << >> ELSE own \o below

\* root-to-leaf order: by depth, keeping the walk order within one depth
RECURSIVE ByDepth(_, _, _)
ByDepth(found, d, maxDepth) ==
  IF d > maxDepth THEN << >> ELSE SelectSeq(found, LAMBDA e : e.depth = d) \o ByDepth(found, d + 1, maxDepth)

\* search(method, path)
PrefixTreeSearch(tree, method, path) ==
  LET segments == splitPath(path)
      found == ByDepth(Walk(tree, << >>, method, segments), 0, Len(segments) + 1)
  IN ParamsResult([i \in DOMAIN found |-> [h |-> found[i].h, params |-> found[i].params]])

\* the templates TrieRouter.add inserts for a path
TrieRouterPaths(path) ==
  LET results == checkOptionalParameter(path) IN IF ~results.isNull THEN results.results ELSE << path >>

RECURSIVE InsertAll(_, _, _, _)
InsertAll(tree, method, paths, handler) ==
  IF paths = << >> THEN tree ELSE InsertAll(PrefixTreeInsert(tree, method, Head(paths), handler), method, Tail(paths), handler)

\* TrieRouterAdd returning after the first expanded template
TrieRouterAdd_firstOnly(tree, method, path, handler) == InsertAll(tree, method, SubSeq(TrieRouterPaths(path), 1, 1), handler)

\* TrieRouter.add
TrieRouterAdd(tree, method, path, handler) == InsertAll(tree, method, TrieRouterPaths(path), handler)

\* TrieRouter.match
TrieRouterMatch(tree, method, path) == PrefixTreeSearch(tree, method, path)

\* ------------------------------------------------------------------------
\* One owned matcher: its name, the add() calls it has received (regs),
\* and its own structure (built flag of the compiled matcher, tree of the
\* prefix-tree matcher)
\* ------------------------------------------------------------------------
MatcherNew(name) == [name |-> name, regs |-> << >>, built |-> FALSE, matchers |-> << >>, tree |-> PrefixTreeNew]

MatcherAdd(m, method, path, handler) ==
  IF m.name = "RegExpRouter"
  THEN LET Added(r) == [thrown |-> r.thrown, err |-> r.err, matcher |-> [m EXCEPT !.regs = r.router.regs]]
       IN Added(RegExpRouterAdd([regs |-> m.regs, built |-> m.built, matchers |-> m.matchers], method, path, handler))
  ELSE [thrown |-> FALSE, err |-> "",
        matcher |-> [m EXCEPT !.regs = Append(m.regs, [method |-> method, path |-> path, handler |-> handler]),
                              !.tree = TrieRouterAdd(m.tree, method, path, handler)]]

MatcherMatch(m, method, path) ==
  IF m.name = "RegExpRouter"
  THEN LET Returned(r) == [matcher |-> [m EXCEPT !.built = r.router.built, !.matchers = r.router.matchers], result |-> r.result]
       IN Returned(RegExpRouterMatch([regs |-> m.regs, built |-> m.built, matchers |-> m.matchers], method, path))
  ELSE [matcher |-> m, result |-> TrieRouterMatch(m.tree, method, path)]

\* ------------------------------------------------------------------------
\* Adaptive selector (SmartRouter): the owned matchers in priority order
\* and the index of the committed one (0 before the commit)
\* ------------------------------------------------------------------------
SmartRouterNew(names) == [smart |-> TRUE, routers |-> [i \in DOMAIN names |-> MatcherNew(names[i])], committed |-> 0]

\* add(): refused once a matcher is committed; otherwise mirrored to every
\* owned matcher, the first failure surfacing to the caller
RECURSIVE MirrorAdd(_, _, _, _, _)
MirrorAdd(routers, i, method, path, handler) ==
  IF i > Len(routers) THEN [thrown |-> FALSE, err |-> "", routers |-> routers]
  ELSE LET Added(r) ==
             IF r.thrown THEN [thrown |-> TRUE, err |-> r.err, routers |-> routers]
             ELSE MirrorAdd([routers EXCEPT ![i] = r.matcher], i + 1, method, path, handler)
       IN Added(MatcherAdd(routers[i], method, path, handler))

\* SmartRouterAdd forwarding to the first owned matcher only
SmartRouterAdd_firstOnly(s, method, path, handler) ==
  IF s.committed # 0 THEN [thrown |-> TRUE, err |-> MESSAGE_MATCHER_IS_ALREADY_BUILT, router |-> s]
  ELSE LET Added(r) == [thrown |-> r.thrown, err |-> r.err, router |-> [s EXCEPT !.routers[1] = r.matcher]]
       IN Added(MatcherAdd(s.routers[1], method, path, handler))

SmartRouterAdd(s, method, path, handler) ==
  IF s.committed # 0 THEN [thrown |-> TRUE, err |-> MESSAGE_MATCHER_IS_ALREADY_BUILT, router |-> s]
  ELSE LET Added(r) == [thrown |-> r.thrown, err |-> r.err, router |-> [s EXCEPT !.routers = r.routers]]
       IN Added(MirrorAdd(s.routers, 1, method, path, handler))

\* the trial loop of the first match(): matcher i is built and run; an
\* ambiguity error moves on to matcher i+1; the first that returns commits.
\* tried lists the matchers run so far; err is the last error raised.
RECURSIVE Trial(_, _, _, _, _, _)
Trial(s, i, method, path, tried, lastErr) ==
  IF i > Len(s.routers) THEN [router |-> s, raised |-> TRUE, err |-> lastErr, result |-> NoResult, tried |-> tried]
  ELSE LET Ran(r) ==
             IF r.result.kind = "error" /\ r.result.err = UnsupportedPathError
             THEN Trial(s, i + 1, method, path, Append(tried, i), r.result.err)
             ELSE [router |-> [s EXCEPT !.routers[i] = r.matcher, !.committed = i], raised |-> FALSE, err |-> "",
                   result |-> r.result, tried |-> Append(tried, i)]
       IN Ran(MatcherMatch(s.routers[i], method, path))

\* FirstMatch returning an empty result when no matcher could be built
FirstMatch_swallow(s, method, path) ==
  LET Ended(t) == [router |-> t.router, result |-> IF t.raised THEN StashResult(<< >>, NoStash) ELSE t.result, tried |-> t.tried]
  IN Ended(Trial(s, 1, method, path, << >>, "Fatal error"))

\* match() before the commit: the trial loop, raising the last error when
\* every owned matcher has raised
FirstMatch(s, method, path) ==
  LET Ended(t) == [router |-> t.router, result |-> IF t.raised THEN ErrorResult(t.err) ELSE t.result, tried |-> t.tried]
  IN Ended(Trial(s, 1, method, path, << >>, "Fatal error"))

\* CommittedMatch running the other owned matcher
CommittedMatch_other(s, method, path) ==
  LET other == Len(s.routers) + 1 - s.committed
      Returned(r) == [router |-> [s EXCEPT !.routers[other] = r.matcher], result |-> r.result, tried |-> << s.committed >>]
  IN Returned(MatcherMatch(s.routers[other], method, path))

\* match() after the commit: the committed matcher alone
CommittedMatch(s, method, path) ==
  LET Returned(r) == [router |-> [s EXCEPT !.routers[s.committed] = r.matcher], result |-> r.result, tried |-> << s.committed >>]
  IN Returned(MatcherMatch(s.routers[s.committed], method, path))

\* SmartRouterMatch running the trial loop on every call
SmartRouterMatch_retrial(s, method, path) == FirstMatch(s, method, path)

SmartRouterMatch(s, method, path) ==
  IF s.committed # 0 THEN CommittedMatch(s, method, path) ELSE FirstMatch(s, method, path)

\* ------------------------------------------------------------------------
\* Router: the matcher chosen by the constructor and the route table
\* ------------------------------------------------------------------------
Targets == { "trie", "regexp", "both" }

\* RouterFor handing the selector the prefix-tree matcher first
RouterFor_trieFirst(target) ==
  CASE target = "trie" -> [smart |-> FALSE, routers |-> << MatcherNew("TrieRouter") >>, committed |-> 0]
    [] target = "regexp" -> [smart |-> FALSE, routers |-> << MatcherNew("RegExpRouter") >>, committed |-> 0]
    [] target = "both" -> SmartRouterNew(<< "TrieRouter", "RegExpRouter" >>)

\* the switch of the Router constructor
RouterFor(target) ==
  CASE target = "trie" -> [smart |-> FALSE, routers |-> << MatcherNew("TrieRouter") >>, committed |-> 0]
    [] target = "regexp" -> [smart |-> FALSE, routers |-> << MatcherNew("RegExpRouter") >>, committed |-> 0]
    [] target = "both" -> SmartRouterNew(<< "RegExpRouter", "TrieRouter" >>)

\* this.router.add(...)
IRouterAdd(r, method, path, handler) ==
  IF r.smart THEN SmartRouterAdd(r, method, path, handler)
  ELSE LET Added(a) == [thrown |-> a.thrown, err |-> a.err, router |-> [r EXCEPT !.routers[1] = a.matcher]]
       IN Added(MatcherAdd(r.routers[1], method, path, handler))

\* this.router.match(...)
IRouterMatch(r, method, path) ==
  IF r.smart THEN SmartRouterMatch(r, method, path)
  ELSE LET Returned(m) == [router |-> [r EXCEPT !.routers[1] = m.matcher], result |-> m.result, tried |-> << 1 >>]
       IN Returned(MatcherMatch(r.routers[1], method, path))

\* String.prototype.toUpperCase on the method names in use
toUpperCase(method) ==
  CASE method = "get" -> "GET" [] method = "post" -> "POST" [] method = "all" -> "ALL" [] OTHER -> method

\* ------------------------------------------------------------------------
\* Inputs
\* ------------------------------------------------------------------------
\* Route templates, with one-letter segments standing for the names of the
\* tests: '/hello', '/api/abc' or '/reg-exp/router', '/entry/:id' or
\* '/reg-exp/:id', '/:user/entries', '/api/*', the '/*' that use('*')
\* registers, and '/api/animals/:type?'
Tpl_a == << "/", "a" >>
Tpl_ab == << "/", "a", "/", "b" >>
Tpl_ai == << "/", "a", "/", ":", "i" >>
Tpl_ub == << "/", ":", "u", "/", "b" >>
Tpl_aw == << "/", "a", "/", "*" >>
Tpl_w == << "/", "*" >>
Tpl_aiq == << "/", "a", "/", ":", "i", "?" >>

Templates == { Tpl_a, Tpl_ab, Tpl_ai, Tpl_ub, Tpl_aw, Tpl_w, Tpl_aiq }

\* Request paths: '/', '/api/animals', '/api/abc', '/api/animals/dog',
\* '/entry/entries'
Path_root == << "/" >>
Path_a == << "/", "a" >>
Path_ab == << "/", "a", "/", "b" >>
Path_ax == << "/", "a", "/", "x" >>
Path_xb == << "/", "x", "/", "b" >>
\* '/api/users/123' (a wildcard remainder of several segments) and a path
\* that continues the characters of a prefix without a '/'
Path_axy == << "/", "a", "/", "x", "/", "y" >>
Path_aa == << "/", "a", "a" >>

Paths == { Path_root, Path_a, Path_ab, Path_ax, Path_xb }

\* the registration methods used (router.get, router.all) and the request
\* methods matched
Verbs == { "get", "all" }
RequestMethods == { "GET", "POST" }

\* ------------------------------------------------------------------------
\* Pooling (utils/pool.ts): the objects are numbered in the order in which
\* the factory makes them.
\* ------------------------------------------------------------------------
DefaultMaxSize == 1000

\* `options.x || d`: the default replaces undefined and 0 alike
OrDefault(x, d) == IF x = UNDEF \/ x = 0 THEN d ELSE x

\* new Pooling(factory, reset, {maxSize, preAlloc})
PoolingNew(maxSize, preAlloc) ==
  [ pool |-> [i \in 1..OrDefault(preAlloc, 0) |-> i],
    created |-> OrDefault(preAlloc, 0),
    maxSize |-> OrDefault(maxSize, DefaultMaxSize) ]

\* ------------------------------------------------------------------------
\* State
\* ------------------------------------------------------------------------
VARIABLES router, routes, basePath, lastCall, req, child, trie, pool

vars == << router, routes, basePath, lastCall, req, child, trie, pool >>

\* the arguments of a registration call that takes lists
NoArgs == [methods |-> << >>, paths |-> << >>, handlers |-> << >>, prefixes |-> << >>, child |-> << >>]

NoCall == [op |-> "none", method |-> "", path |-> << >>, result |-> NoResult, tried |-> << >>, before |-> 0, args |-> NoArgs]

\* the request of the last match(): no param() call made yet
NoParam == [called |-> FALSE, routeIndex |-> 0, field |-> << >>, value |-> << >>]

Start(routers) ==
  /\ router \in routers
  /\ routes = << >>
  /\ basePath = << "/" >>
  /\ lastCall = NoCall
  /\ req = NoParam
  /\ child = << >>
  /\ trie = NewTrie
  /\ pool = PoolingNew(UNDEF, UNDEF)

\* every Router the constructor builds
Init == Start({ RouterFor(t) : t \in Targets })

\* Router.#addRoute(method, path, handler): the matcher first, then the table
AddRoute(verb, tpl) ==
  /\ Len(routes) < MaxRoutes
  /\ LET Added(method, path, handler, a) ==
           /\ router' = a.router
           /\ routes' = IF a.thrown THEN routes ELSE Append(routes, [method |-> method, path |-> path, handler |-> handler])
           /\ lastCall' = [op |-> "add", method |-> "", path |-> << >>,
                           result |-> IF a.thrown THEN ErrorResult(a.err) ELSE NoResult, tried |-> << >>, before |-> router.committed, args |-> NoArgs]
         Add(method, path, handler) == Added(method, path, handler, IRouterAdd(router, method, path, handler))
     IN Add(toUpperCase(verb), mergePath(basePath, tpl), Len(routes) + 1)
  /\ req' = NoParam
  /\ UNCHANGED << basePath, child, trie, pool >>

\* router.match(method, path), as the application calls it per request
Match(method, path) ==
  /\ LET Returned(m) ==
           /\ router' = m.router
           /\ lastCall' = [op |-> "match", method |-> method, path |-> path, result |-> m.result, tried |-> m.tried, before |-> router.committed, args |-> NoArgs]
     IN Returned(IRouterMatch(router, method, path))
  /\ req' = NoParam
  /\ UNCHANGED << routes, basePath, child, trie, pool >>

\* HttpRequest.#getParamValue for the handler at routeIndex: the value in
\* the stash under the handler's key when the result has a stash, else the
\* key itself; undefined when the handler has no such field
getParamValue(res, routeIndex, field) ==
  LET params == res.handlers[routeIndex].params IN
  IF field \notin DOMAIN params THEN UndefStr
  ELSE IF res.shape = "stash" THEN (IF params[field] \in DOMAIN res.stash THEN res.stash[params[field]] ELSE UndefStr)
  ELSE params[field]

\* HttpRequest.param(field) decoding nothing
param_raw(res, routeIndex, field) == getParamValue(res, routeIndex, field)

\* HttpRequest.param(field)
param(res, routeIndex, field) ==
  LET Decode(p) == IF p # UndefStr /\ p # << >> /\ Contains(p, "%") THEN tryDecode(p) ELSE p
  IN Decode(getParamValue(res, routeIndex, field))

\* ctx.req.param(field) in the handler at routeIndex of the last match()
Param(routeIndex, field) ==
  /\ lastCall.op = "match" /\ lastCall.result.kind = "ok"
  /\ routeIndex \in DOMAIN lastCall.result.handlers
  /\ req' = [called |-> TRUE, routeIndex |-> routeIndex, field |-> field, value |-> param(lastCall.result, routeIndex, field)]
  /\ UNCHANGED << router, routes, basePath, lastCall, child, trie, pool >>

Next ==
  \/ \E verb \in Verbs, tpl \in Templates : AddRoute(verb, tpl)
  \/ \E method \in RequestMethods, path \in Paths : Match(method, path)

Spec == Init /\ [][Next]_vars

\* the compiled matcher alone: new Router('regexp')
SpecRegExp == Start({ RouterFor("regexp") }) /\ [][Next]_vars

\* the prefix-tree matcher alone: new Router('trie')
SpecTrie == Start({ RouterFor("trie") }) /\ [][Next]_vars

\* either matcher alone
SpecMatchers == Start({ RouterFor("regexp"), RouterFor("trie") }) /\ [][Next]_vars

\* the selector over both matchers: new Router('both')
SpecSmart == Start({ RouterFor("both") }) /\ [][Next]_vars

\* a selector constructed with the compiled matcher as its only matcher:
\* new SmartRouter({routers: [new RegExpRouter()]})
SpecSmartAlone == Start({ SmartRouterNew(<< "RegExpRouter" >>) }) /\ [][Next]_vars

\* ------------------------------------------------------------------------
\* Vocabulary of the properties
\* ------------------------------------------------------------------------
MatchCalled == lastCall.op = "match"

MatchReturned == lastCall.op = "match" /\ lastCall.result.kind = "ok"

MatchRaised == lastCall.op = "match" /\ lastCall.result.kind = "error"

\* the owned matcher of a given name (index 0 when not owned)
Owned(name) == IF \E i \in DOMAIN router.routers : router.routers[i].name = name
               THEN CHOOSE i \in DOMAIN router.routers : router.routers[i].name = name ELSE 0

\* whether the compiled matcher cannot be built from the registrations
Ambiguous(regs) == \E m \in MethodsOf(regs) : BuildAllMatchers(regs)[m].thrown

\* what the compiled matcher answers once built on the registrations
CompiledAnswer(regs, method, path) == RegExpRouterLookup(BuildAllMatchers(regs), method, path)

\* ------------------------------------------------------------------------
\* C1: once the selector has committed to a matcher, the commitment never
\* changes, no other owned matcher is touched again, and every later
\* match() is answered by running the committed matcher alone; the matcher
\* committed by a first match() is the one that returned its result.
\* ------------------------------------------------------------------------
C1_Step ==
  /\ router.committed # 0 =>
       /\ router'.committed = router.committed
       /\ \A i \in DOMAIN router.routers : i # router.committed => router'.routers[i] = router.routers[i]
       /\ lastCall'.op = "match" => lastCall'.tried = << router.committed >>
  /\ (router.committed = 0 /\ lastCall'.op = "match" /\ lastCall'.result.kind = "ok") =>
       /\ router'.committed # 0
       /\ router'.committed = lastCall'.tried[Len(lastCall'.tried)]
       /\ \A k \in 1..(Len(lastCall'.tried) - 1) : lastCall'.tried[k] < router'.committed

C1_CommitIsFinal == [][C1_Step]_vars

\* a later match() answered by the prefix-tree matcher the selector
\* committed to after the compiled matcher had raised
C1_Witness == router.smart /\ router.committed = 2 /\ MatchReturned /\ lastCall.before = 2 /\ lastCall.tried = << 2 >>

\* ------------------------------------------------------------------------
\* C2: on the first match() of a selector owning the compiled and the
\* prefix-tree matcher, an ambiguity error of the compiled matcher is not
\* raised to the caller: the call returns the compiled matcher's answer
\* when it can be built, and the prefix-tree matcher's answer otherwise.
\* ------------------------------------------------------------------------
C2_FirstMatchFallsThrough ==
  (router.smart /\ Owned("RegExpRouter") # 0 /\ Owned("TrieRouter") # 0 /\ MatchCalled /\ lastCall.before = 0) =>
    LET regs == router.routers[Owned("RegExpRouter")].regs IN
    /\ lastCall.result.kind = "ok"
    /\ lastCall.result = IF ~Ambiguous(regs)
                         THEN CompiledAnswer(regs, lastCall.method, lastCall.path)
                         ELSE TrieRouterMatch(router.routers[Owned("TrieRouter")].tree, lastCall.method, lastCall.path)

\* a first match() on an ambiguous route set, answered by the second matcher
C2_Witness ==
  /\ router.smart /\ Len(router.routers) = 2 /\ MatchReturned /\ lastCall.before = 0
  /\ Ambiguous(router.routers[1].regs) /\ lastCall.tried = << 1, 2 >> /\ lastCall.result.handlers # << >>

\* ------------------------------------------------------------------------
\* C3: when every owned matcher raises on the first match(), the call
\* raises the matchers' error and the selector commits to nothing.
\* ------------------------------------------------------------------------
C3_AllRaiseIsRaised ==
  (router.smart /\ MatchCalled /\ lastCall.before = 0
   /\ \A i \in DOMAIN router.routers : MatcherMatch(router.routers[i], lastCall.method, lastCall.path).result.kind = "error")
  => (lastCall.result = ErrorResult(UnsupportedPathError) /\ router.committed = 0)

\* a selector whose only matcher is the compiled one, on an ambiguous route set
C3_Witness ==
  /\ router.smart /\ MatchRaised /\ lastCall.before = 0 /\ lastCall.tried = << 1 >>
  /\ \A i \in DOMAIN router.routers : Ambiguous(router.routers[i].regs)

\* ------------------------------------------------------------------------
\* C4: every owned matcher has received exactly the registrations of the
\* route table, in the same order (so all owned matchers hold the same
\* sequence).
\* ------------------------------------------------------------------------
C4_AddIsMirrored == router.smart => \A i \in DOMAIN router.routers : router.routers[i].regs = routes

\* two registrations mirrored to two matchers, before any match()
C4_Witness == router.smart /\ Len(router.routers) = 2 /\ router.committed = 0 /\ Len(routes) = 2 /\ lastCall.op = "add" /\ \A i \in 1..2 : Len(router.routers[i].regs) = 2

\* ------------------------------------------------------------------------
\* Reference reading of templates, independent of the matchers
\* ------------------------------------------------------------------------
\* the '/'-separated segments of a template or path that starts with '/'
RefSegments(t) == Tail(Split(t))

IsParamSeg(seg) == Len(seg) >= 2 /\ seg[1] = ":"

IsOptionalSeg(seg) == IsParamSeg(seg) /\ seg[Len(seg)] = "?"

IsWildSeg(seg) == seg = << "*" >>

IsLiteralSeg(seg) == seg # << >> /\ ~IsParamSeg(seg) /\ ~IsWildSeg(seg)

LiteralOnly(t) == \A i \in DOMAIN RefSegments(t) : IsLiteralSeg(RefSegments(t)[i])

RECURSIVE JoinSegments(_)
JoinSegments(segs) == IF segs = << >> THEN << >> ELSE << "/" >> \o Head(segs) \o JoinSegments(Tail(segs))

\* the concrete templates of a template: one ending in ':name?' stands for
\* the template without that segment and the template with ':name'
RefExpansions(t) ==
  LET segs == RefSegments(t)
      n == Len(segs)
  IN IF IsOptionalSeg(segs[n])
     THEN { IF n = 1 THEN << "/" >> ELSE JoinSegments(SubSeq(segs, 1, n - 1)),
            JoinSegments([segs EXCEPT ![n] = SubSeq(segs[n], 1, Len(segs[n]) - 1)]) }
     ELSE { t }

\* a concrete template against a path, segment by segment: a literal
\* equals the segment, a parameter takes one non-empty segment, a final
\* wildcard takes the remainder
RECURSIVE RefMatch(_, _)
RefMatch(tsegs, psegs) ==
  IF tsegs = << >> THEN psegs = << >>
  ELSE IF IsWildSeg(Head(tsegs)) /\ Len(tsegs) = 1 THEN TRUE
  ELSE IF psegs = << >> THEN FALSE
  ELSE /\ IF IsParamSeg(Head(tsegs)) THEN Head(psegs) # << >> ELSE Head(tsegs) = Head(psegs)
       /\ RefMatch(Tail(tsegs), Tail(psegs))

TemplateMatches(t, path) == \E e \in RefExpansions(t) : RefMatch(RefSegments(e), RefSegments(path))

\* the position of a concrete template's node in a tree of segments
RefKey(seg) == IF IsWildSeg(seg) THEN << "*" >> ELSE IF IsParamSeg(seg) THEN << ":" >> ELSE seg

RefNode(e) == [i \in DOMAIN RefSegments(e) |-> RefKey(RefSegments(e)[i])]

\* the routes of the table that apply to a request method
AppliesTo(k, method) == routes[k].method = method \/ routes[k].method = METHOD_NAME_ALL

\* whether the node of the concrete template e lies on a walk that ends on
\* a template matching the path
Visited(e, method, path) ==
  \E k \in DOMAIN routes : AppliesTo(k, method) /\
    \E f \in RefExpansions(routes[k].path) : RefMatch(RefSegments(f), RefSegments(path)) /\ IsPrefixOf(RefNode(e), RefNode(f))

\* positions of a handler in the returned list
PositionsOf(h) == { i \in DOMAIN lastCall.result.handlers : lastCall.result.handlers[i].h = h }

\* HttpRequest.param(): the value bound to a name by one returned entry
BoundValue(res, e, name) ==
  IF name \notin DOMAIN e.params THEN UndefStr
  ELSE IF res.shape = "stash" THEN (IF e.params[name] \in DOMAIN res.stash THEN res.stash[e.params[name]] ELSE UndefStr)
  ELSE e.params[name]

ParamName_i == << "i" >>

\* ------------------------------------------------------------------------
\* C5: with only literal templates registered, the compiled matcher never
\* raises and match(m, p) returns exactly the handlers registered under m
\* (or under ALL) for the template identical to p, in registration order,
\* binding no parameter.
\* ------------------------------------------------------------------------
C5_LiteralExact ==
  (MatchCalled /\ \A k \in DOMAIN routes : LiteralOnly(routes[k].path)) =>
    LET same == SelectSeq(routes, LAMBDA r : r.path = lastCall.path /\ (r.method = lastCall.method \/ r.method = METHOD_NAME_ALL)) IN
    /\ lastCall.result.kind = "ok"
    /\ HandlersOf(lastCall.result) = [i \in DOMAIN same |-> same[i].handler]
    /\ \A i \in DOMAIN lastCall.result.handlers : DOMAIN lastCall.result.handlers[i].params = {}

\* two different literal templates, the match returning the handler of one
C5_Witness ==
  /\ Len(routes) = 2 /\ LiteralOnly(routes[1].path) /\ LiteralOnly(routes[2].path) /\ routes[1].path # routes[2].path
  /\ MatchReturned /\ lastCall.path = routes[2].path /\ HandlersOf(lastCall.result) = << 2 >>

\* ------------------------------------------------------------------------
\* C6: when two routes of one method put a literal segment and a plain
\* ':name' parameter at the same position below the same prefix, in either
\* registration order, match() on the compiled matcher raises
\* UnsupportedPathError.
\* ------------------------------------------------------------------------
LiteralVsParam(t1, t2) ==
  LET s1 == RefSegments(t1)
      s2 == RefSegments(t2)
  IN \E k \in DOMAIN s1 \cap DOMAIN s2 :
       /\ SubSeq(s1, 1, k - 1) = SubSeq(s2, 1, k - 1)
       /\ IsLiteralSeg(s1[k])
       /\ IsParamSeg(s2[k]) /\ ~IsOptionalSeg(s2[k])

C6_LiteralParamConflict ==
  (MatchCalled /\ \E i, j \in DOMAIN routes : routes[i].method = routes[j].method /\ LiteralVsParam(routes[i].path, routes[j].path))
  => lastCall.result = ErrorResult(UnsupportedPathError)

\* '/a/:i' registered before '/:u/b' under one method, and match() raised
C6_Witness ==
  /\ Len(routes) = 2 /\ routes[1].path = Tpl_ai /\ routes[2].path = Tpl_ub /\ routes[1].method = routes[2].method
  /\ MatchRaised /\ lastCall.result.err = UnsupportedPathError

\* ------------------------------------------------------------------------
\* C7: on the compiled matcher, a literal template registered before a
\* trailing-wildcard template that covers it ('/a/b' then '/a/*') makes
\* match() on the literal path return both handlers, the literal's first;
\* with just these two routes the call does not raise.
\* ------------------------------------------------------------------------
C7_LiteralThenWildcard ==
  \A i, j \in DOMAIN routes :
    (/\ i < j /\ MatchCalled
     /\ LiteralOnly(routes[i].path) /\ lastCall.path = routes[i].path
     /\ IsWildSeg(RefSegments(routes[j].path)[Len(RefSegments(routes[j].path))])
     /\ TemplateMatches(routes[j].path, lastCall.path)
     /\ AppliesTo(i, lastCall.method) /\ AppliesTo(j, lastCall.method))
    => /\ Len(routes) = 2 => lastCall.result.kind = "ok"
       /\ lastCall.result.kind = "ok" =>
            /\ PositionsOf(i) # {} /\ PositionsOf(j) # {}
            /\ \A a \in PositionsOf(i), b \in PositionsOf(j) : a < b

\* '/a/b' then '/a/*' under GET, and match(GET, '/a/b') returned both
C7_Witness ==
  /\ routes = << [method |-> "GET", path |-> Tpl_ab, handler |-> 1], [method |-> "GET", path |-> Tpl_aw, handler |-> 2] >>
  /\ MatchReturned /\ lastCall.method = "GET" /\ lastCall.path = Path_ab /\ HandlersOf(lastCall.result) = << 1, 2 >>

\* ------------------------------------------------------------------------
\* C8: the prefix-tree matcher returns the handlers of exactly the nodes
\* lying on a successful walk (prefix, wildcard and terminal nodes), and
\* lists them root to leaf: a handler of a shallower node never follows one
\* of a deeper node.
\* ------------------------------------------------------------------------
C8_RootToLeaf ==
  MatchCalled =>
    /\ lastCall.result.kind = "ok"
    /\ { lastCall.result.handlers[i].h : i \in DOMAIN lastCall.result.handlers }
         = { k \in DOMAIN routes : AppliesTo(k, lastCall.method) /\ \E e \in RefExpansions(routes[k].path) : Visited(e, lastCall.method, lastCall.path) }
    /\ \A a, b \in DOMAIN lastCall.result.handlers :
         LET ta == routes[lastCall.result.handlers[a].h].path
             tb == routes[lastCall.result.handlers[b].h].path
         IN (a < b /\ RefExpansions(ta) = { ta } /\ RefExpansions(tb) = { tb }) => Len(RefSegments(ta)) <= Len(RefSegments(tb))

\* the wildcard '/*' registered after '/a/:i', its handler returned first
C8_Witness ==
  /\ Len(routes) = 2 /\ routes[1].path = Tpl_ai /\ routes[2].path = Tpl_w
  /\ MatchReturned /\ lastCall.path = Path_ax /\ HandlersOf(lastCall.result) = << 2, 1 >>

\* ------------------------------------------------------------------------
\* C9: the prefix-tree matcher raises neither on add() nor on match(), and
\* match() returns every registration whose template matches the path and
\* whose method applies, also for route sets the compiled matcher rejects.
\* ------------------------------------------------------------------------
C9_TrieTotal ==
  /\ lastCall.op = "add" => lastCall.result.kind # "error"
  /\ MatchCalled =>
       /\ lastCall.result.kind = "ok"
       /\ \A k \in DOMAIN routes :
            (AppliesTo(k, lastCall.method) /\ TemplateMatches(routes[k].path, lastCall.path)) => PositionsOf(k) # {}

\* a route set the compiled matcher rejects, both of its routes returned
C9_Witness ==
  /\ Len(routes) = 2 /\ Ambiguous(routes) /\ MatchReturned
  /\ PositionsOf(1) # {} /\ PositionsOf(2) # {}
  /\ TemplateMatches(routes[1].path, lastCall.path) /\ TemplateMatches(routes[2].path, lastCall.path)

\* ------------------------------------------------------------------------
\* C10: '/a/:i?' is expanded into '/a' and '/a/:i'; a match on '/a' returns
\* its handler with the parameter i unbound, a match on '/a/<segment>'
\* returns the same handler with i bound to the segment.
\* ------------------------------------------------------------------------
C10_OptionalParameter ==
  /\ checkOptionalParameter(Tpl_aiq) = [isNull |-> FALSE, results |-> << Tpl_a, Tpl_ai >>]
  /\ \A k \in DOMAIN routes :
       (MatchReturned /\ routes[k].path = Tpl_aiq /\ AppliesTo(k, lastCall.method)) =>
         LET res == lastCall.result
             segs == RefSegments(lastCall.path)
             values == { BoundValue(res, res.handlers[i], ParamName_i) : i \in PositionsOf(k) }
         IN /\ lastCall.path = Path_a => (PositionsOf(k) # {} /\ values = { UndefStr })
            /\ (Len(segs) = 2 /\ segs[1] = << "a" >> /\ segs[2] # << >>) =>
                 (PositionsOf(k) # {} /\ segs[2] \in values /\ values \subseteq { segs[2], UndefStr })

\* '/a/:i?' registered, match on '/a/x' returned its handler with i = 'x'
C10_Witness ==
  /\ MatchReturned /\ lastCall.path = Path_ax
  /\ \E k \in DOMAIN routes : routes[k].path = Tpl_aiq /\
       \E i \in PositionsOf(k) : BoundValue(lastCall.result, lastCall.result.handlers[i], ParamName_i) = << "x" >>

\* ------------------------------------------------------------------------
\* C11: a route registered under ALL is returned for every request method:
\* whenever match() returns and the template of an ALL route matches the
\* path, the route's handler is in the result.
\* ------------------------------------------------------------------------
C11_AllMethod ==
  \A k \in DOMAIN routes :
    (MatchReturned /\ routes[k].method = "ALL" /\ TemplateMatches(routes[k].path, lastCall.path)) => PositionsOf(k) # {}

\* one route under ALL, returned to a POST request on its own path
C11_Witness ==
  /\ Len(routes) = 1 /\ routes[1].method = "ALL" /\ routes[1].path = Tpl_a
  /\ MatchReturned /\ lastCall.method = "POST" /\ lastCall.path = Path_a /\ HandlersOf(lastCall.result) = << 1 >>

\* ------------------------------------------------------------------------
\* C12: when no template registered under the request method or under ALL
\* matches the path, match() returns an empty handler list; it raises only
\* the ambiguity error of a route set the compiled matcher, used alone,
\* cannot build.
\* ------------------------------------------------------------------------
NoTemplateMatches ==
  \A k \in DOMAIN routes : ~((routes[k].method = lastCall.method \/ routes[k].method = "ALL") /\ TemplateMatches(routes[k].path, lastCall.path))

Tpl_va == << "/", ":", "v", "/", "a" >>
Path_xa == << "/", "x", "/", "a" >>

NameTemplates == { Tpl_ai, Tpl_aiq, Tpl_ub, Tpl_va }
NamePaths == { Path_a, Path_ax, Path_xb, Path_xa }

NextNames ==
  \/ \E verb \in Verbs, tpl \in NameTemplates : AddRoute(verb, tpl)
  \/ \E method \in RequestMethods, path \in NamePaths : Match(method, path)

\* both matchers, each alone, over the parameter templates
SpecNames == Start({ RouterFor("regexp"), RouterFor("trie") }) /\ [][NextNames]_vars

\* the name a ':name' or ':name?' segment declares
NameOf(seg) == IF seg[Len(seg)] = "?" THEN SubSeq(seg, 2, Len(seg) - 1) ELSE SubSeq(seg, 2, Len(seg))

\* the ':name' tokens a template declares
DeclaredNames(t) == { NameOf(RefSegments(t)[i]) : i \in { j \in DOMAIN RefSegments(t) : IsParamSeg(RefSegments(t)[j]) } }

\* the names one returned entry carries
NamesIn(entry) == DOMAIN entry.params

Path_aA == << "/", "a", "/", "%", "4", "1" >>
Path_aAxe4 == << "/", "a", "/", "%", "4", "1", "x", "%", "e", "4" >>
Path_ub == << "/", "%", "c", "3", "%", "a", "4", "/", "b" >>

ParamTemplates == { Tpl_ai, Tpl_aiq, Tpl_ub }
ParamPaths == { Path_a, Path_ax, Path_aA, Path_aAxe4, Path_ub }
ParamFields == { << "i" >>, << "u" >> }

NextParam ==
  \/ \E verb \in Verbs, tpl \in ParamTemplates : AddRoute(verb, tpl)
  \/ \E method \in RequestMethods, path \in ParamPaths : Match(method, path)
  \/ \E routeIndex \in 1..(2 * MaxRoutes), field \in ParamFields : Param(routeIndex, field)

\* both matchers, each alone, with requests reading their parameters
SpecParam == Start({ RouterFor("regexp"), RouterFor("trie") }) /\ [][NextParam]_vars

\* the path segment at the position where a concrete pattern declares a name
SegmentOf(e, path, name) ==
  LET segs == RefSegments(e)
      j == CHOOSE i \in DOMAIN segs : IsParamSeg(segs[i]) /\ NameOf(segs[i]) = name
  IN RefSegments(path)[j]

\* C14: param(name) in a handler returns the percent-decoded path segment
\* bound to name by the concrete pattern of the handler's template that
\* matched (undefined when the pattern declares no such name): '%41x%e4'
\* is read as 'Ax%e4' and '%c3%a4' as the one character U+228.  The value
\* depends on the template and the path only, so it is the same whether the
\* result carries a stash (compiled matcher) or per-handler values
\* (prefix-tree matcher).
C14_ParamDecoded ==
  req.called =>
    LET entry == lastCall.result.handlers[req.routeIndex] IN
    \E e \in RefExpansions(routes[entry.h].path) :
      /\ RefMatch(RefSegments(e), RefSegments(lastCall.path)) \/ Visited(e, lastCall.method, lastCall.path)
      /\ NamesIn(entry) = DeclaredNames(e)
      /\ req.value = IF req.field \in DeclaredNames(e) THEN tryDecode(SegmentOf(e, lastCall.path, req.field)) ELSE UndefStr
      /\ (lastCall.path = Path_aAxe4 /\ req.field \in DeclaredNames(e)) => req.value = << "A", "x", "%", "e", "4" >>
      /\ (lastCall.path = Path_ub /\ req.field \in DeclaredNames(e)) => req.value = << "U+228" >>

\* a stash-shaped result whose handler reads i = 'A' from '/a/%41'
C14_Witness ==
  /\ req.called /\ lastCall.result.shape = "stash" /\ lastCall.path = Path_aA
  /\ req.field = << "i" >> /\ req.value = << "A" >>

\* ------------------------------------------------------------------------
\* C15: after the commit match() is a pure lookup: a match() step leaves
\* the selector and its matchers as they were, the same call made again
\* returns the identical result, and a call repeating the previous call's
\* method and path returns the previous result.
\* ------------------------------------------------------------------------
C15_Step ==
  (router.committed # 0 /\ lastCall'.op = "match") =>
    /\ router' = router
    /\ lastCall'.result.kind = "ok"
    /\ IRouterMatch(router', lastCall'.method, lastCall'.path).result = lastCall'.result
    /\ (lastCall.op = "match" /\ lastCall.method = lastCall'.method /\ lastCall.path = lastCall'.path) =>
         lastCall'.result = lastCall.result

C15_MatchIsIdempotent == [][C15_Step]_vars

\* a match() made after the commit that returned a handler with a bound
\* parameter
C15_Witness ==
  /\ router.smart /\ MatchReturned /\ lastCall.before = 1
  /\ lastCall.result.handlers # << >> /\ lastCall.result.stash # NoStash

\* ------------------------------------------------------------------------
\* C16: once the first match() has built the matcher (for the selector:
\* once it has committed), add() is refused with 'Can not add a route since
\* the matcher is already built.' and changes nothing: the matcher and the
\* route table are as before, so every later match() answers as before.
\* ------------------------------------------------------------------------
Built(r) == IF r.smart THEN r.committed # 0 ELSE r.routers[1].name = "RegExpRouter" /\ r.routers[1].built

C16_Step ==
  (Built(router) /\ lastCall'.op = "add") =>
    /\ lastCall'.result.kind = "error"
    /\ lastCall'.result.err = "Can not add a route since the matcher is already built."
    /\ router' = router
    /\ routes' = routes
    /\ \A path \in Paths : IRouterMatch(router', "GET", path).result = IRouterMatch(router, "GET", path).result

Path_a_slash == << "/", "a", "/" >>

WildTemplates == { Tpl_aw, Tpl_a, Tpl_ab, Tpl_w }
WildPaths == { Path_root, Path_a, Path_a_slash, Path_ax, Path_axy, Path_aa }

NextWild ==
  \/ \E verb \in Verbs, tpl \in WildTemplates : AddRoute(verb, tpl)
  \/ \E method \in RequestMethods, path \in WildPaths : Match(method, path)

\* both matchers, each alone, over the wildcard templates
SpecWild == Start({ RouterFor("regexp"), RouterFor("trie") }) /\ [][NextWild]_vars

\* the paths '/a/*' stands for: '/a' itself and '/a/' followed by anything
UnderPrefix_a(path) == path = Path_a \/ IsPrefixOf(Path_a_slash, path)

\* C20: in the compiled matcher (and in the prefix-tree matcher as well)
\* the handler of '/a/*' is returned for '/a' and for every path
\* '/a/<rest>', whatever the number of segments of <rest>, and for no other
\* path: not for '/aa', which only continues the characters of the prefix.
C20_TailWildcard ==
  \A k \in DOMAIN routes :
    (MatchReturned /\ routes[k].path = Tpl_aw /\ AppliesTo(k, lastCall.method)) =>
      (PositionsOf(k) # {} <=> UnderPrefix_a(lastCall.path))

\* '/a/*' alone answering '/a/x/y' in the compiled matcher
C20_Witness ==
  /\ router.routers[1].name = "RegExpRouter"
  /\ Len(routes) = 1 /\ routes[1].path = Tpl_aw /\ AppliesTo(1, lastCall.method)
  /\ MatchReturned /\ lastCall.path = Path_axy /\ HandlersOf(lastCall.result) = << 1 >>

\* ------------------------------------------------------------------------
\* Router: registration calls that take lists, groups and mounted routers
\* ------------------------------------------------------------------------
\* what a run of #addRoute calls has done so far: the matcher, the route
\* table, whether a call has thrown, and the routes of the mounted router
Registered(r, table, thrown, err, kids) == [router |-> r, routes |-> table, thrown |-> thrown, err |-> err, child |-> kids]

\* Router.#addRoute(method, path, handler) on a Router whose #basePath is base
addRoute(st, base, method, path, handler) ==
  LET Added(m, p, a) ==
        IF a.thrown THEN Registered(a.router, st.routes, TRUE, a.err, st.child)
        ELSE Registered(a.router, Append(st.routes, [method |-> m, path |-> p, handler |-> handler]), FALSE, "", st.child)
      Add(m, p) == Added(m, p, IRouterAdd(st.router, m, p, handler))
  IN Add(toUpperCase(method), mergePath(base, path))

\* the #addRoute calls of a loop, ended by the first that throws
RECURSIVE addRoutes(_, _, _)
addRoutes(st, base, items) ==
  IF items = << >> \/ st.thrown THEN st
  ELSE addRoutes(addRoute(st, base, Head(items).method, Head(items).path, Head(items).handler), base, Tail(items))

\* the loops of on() with the methods outermost
onItems_methodsOuter(methods, paths, handlers) ==
  LET P == Len(paths)
      H == Len(handlers)
  IN [i \in 1..(Len(methods) * P * H) |->
        [method |-> methods[((i - 1) \div (P * H)) + 1], path |-> paths[(((i - 1) \div H) % P) + 1], handler |-> handlers[((i - 1) % H) + 1]]]

\* the loops of on(): for each path, for each method, for each handler
onItems(methods, paths, handlers) ==
  LET M == Len(methods)
      H == Len(handlers)
  IN [i \in 1..(Len(paths) * M * H) |->
        [method |-> methods[(((i - 1) \div H) % M) + 1], path |-> paths[((i - 1) \div (M * H)) + 1], handler |-> handlers[((i - 1) % H) + 1]]]

\* use(): every handler under ALL and the one path
useItems(path, handlers) == [i \in DOMAIN handlers |-> [method |-> METHOD_NAME_ALL, path |-> path, handler |-> handlers[i]]]

\* group() taking the prefix as the base path of the clone
group_prefixOnly(base, prefix) == prefix

\* the #basePath of the clone group(prefix) returns
group(base, prefix) == mergePath(base, prefix)

\* the #basePath at the end of a chain of nested groups
RECURSIVE groups(_, _)
groups(base, prefixes) == IF prefixes = << >> THEN base ELSE groups(group(base, Head(prefixes)), Tail(prefixes))

\* route() merging the child path in front of the prefix
routeStep_swapped(st, base, j) ==
  LET Added(p, a) ==
        Registered(a.router,
                   IF a.thrown THEN st.routes ELSE Append(st.routes, [method |-> st.child[j].method, path |-> p, handler |-> st.child[j].handler]),
                   a.thrown, a.err, [st.child EXCEPT ![j].path = p])
      Merged(p) == Added(p, IRouterAdd(st.router, st.child[j].method, p, st.child[j].handler))
  IN Merged(mergePath(st.child[j].path, base))

\* one turn of the loop of route(): the child's route object gets the merged
\* path, is added to the matcher and pushed to the table.  The object is
\* shared: entries of the table that are this object show the new path too.
routeStep(st, base, j) ==
  LET Aliased(table, p) == [i \in DOMAIN table |-> IF table[i].handler = st.child[j].handler THEN [table[i] EXCEPT !.path = p] ELSE table[i]]
      Added(p, a) ==
        Registered(a.router,
                   IF a.thrown THEN Aliased(st.routes, p)
                   ELSE Append(Aliased(st.routes, p), [method |-> st.child[j].method, path |-> p, handler |-> st.child[j].handler]),
                   a.thrown, a.err, [st.child EXCEPT ![j].path = p])
      Merged(p) == Added(p, IRouterAdd(st.router, st.child[j].method, p, st.child[j].handler))
  IN Merged(mergePath(base, st.child[j].path))

RECURSIVE routeLoop(_, _, _)
routeLoop(st, base, j) == IF j > Len(st.child) \/ st.thrown THEN st ELSE routeLoop(routeStep(st, base, j), base, j + 1)

\* handler functions not registered so far
FreshHandlers(n) == [j \in 1..n |-> Len(routes) + j]

\* the state after a registration call, and the call as the last one
RegisterDone(op, args, st) ==
  /\ router' = st.router
  /\ routes' = st.routes
  /\ child' = st.child
  /\ lastCall' = [op |-> op, method |-> "", path |-> << >>, result |-> IF st.thrown THEN ErrorResult(st.err) ELSE NoResult,
                  tried |-> << >>, before |-> router.committed, args |-> args]
  /\ req' = NoParam
  /\ UNCHANGED << basePath, trie, pool >>

\* router.on(methods, paths, ...handlers)
On(methods, paths, n) ==
  /\ Len(routes) + Len(methods) * Len(paths) * n <= MaxRoutes + 2
  /\ RegisterDone("on", [NoArgs EXCEPT !.methods = methods, !.paths = paths, !.handlers = FreshHandlers(n)],
                  addRoutes(Registered(router, routes, FALSE, "", child), basePath, onItems(methods, paths, FreshHandlers(n))))

\* router.use(path, ...handlers); use(...handlers) registers under '*'
Use(path, n) ==
  /\ Len(routes) + n <= MaxRoutes + 2
  /\ RegisterDone("use", [NoArgs EXCEPT !.methods = << METHOD_NAME_ALL >>, !.paths = << path >>, !.handlers = FreshHandlers(n)],
                  addRoutes(Registered(router, routes, FALSE, "", child), basePath, useItems(path, FreshHandlers(n))))

\* router.group(p1).group(p2)...[verb](path, handler), or the same calls made
\* in the callbacks of group(prefix, callback): the clones share the matcher
\* and the table of the router and differ in #basePath only
GroupRoute(prefixes, verb, path) ==
  /\ Len(routes) < MaxRoutes
  /\ RegisterDone("group", [NoArgs EXCEPT !.methods = << verb >>, !.paths = << path >>, !.handlers = FreshHandlers(1), !.prefixes = prefixes],
                  addRoute(Registered(router, routes, FALSE, "", child), groups(basePath, prefixes), verb, path, Len(routes) + 1))

\* child[verb](path, handler) on the router that is to be mounted (its own
\* matcher plays no part in the parent); registered keeps the path of the
\* route as it was registered
ChildRoute(verb, path) ==
  /\ Len(child) < MaxRoutes
  /\ child' = Append(child, [method |-> toUpperCase(verb), path |-> mergePath(<< "/" >>, path), handler |-> 100 + Len(child) + 1,
                             registered |-> mergePath(<< "/" >>, path)])
  /\ lastCall' = [NoCall EXCEPT !.op = "child"]
  /\ req' = NoParam
  /\ UNCHANGED << router, routes, basePath, trie, pool >>

\* the longest path a mounted route may get
MaxPathLen == 7

\* parent.route(path, child)
Route(path) ==
  /\ child # << >>
  /\ \A j \in DOMAIN child : Len(child[j].path) + Len(path) <= MaxPathLen
  /\ Len(routes) + Len(child) <= MaxRoutes + 2
  /\ RegisterDone("route", [NoArgs EXCEPT !.prefixes = << path >>, !.child = child],
                  routeLoop(Registered(router, routes, FALSE, "", child), group(basePath, path), 1))

\* prefixes of groups and mounts, and the inputs of the list calls
Prefix_a == << "/", "a" >>
Prefix_x == << "/", "x" >>
Prefixes == { Prefix_a, Prefix_x }
Tpl_star == << "*" >>
RouterTemplates == { Tpl_a, Tpl_ai }
MethodLists == { << "get" >>, << "GET", "post" >> }
PathLists == { << Tpl_a >>, << Tpl_ai, Tpl_a >> }
PrefixLists == { << Prefix_a >>, << Prefix_x, Prefix_a >> }
RouterPaths == { Path_a, Path_ax, << "/", "a", "/", "a" >>, << "/", "x", "/", "a" >>, << "/", "x", "/", "a", "/", "a" >> }

\* the registration calls of one Router, and a request
NextOn ==
  \/ \E verb \in Verbs : AddRoute(verb, Tpl_a)
  \/ \E methods \in MethodLists, paths \in PathLists, n \in 1..2 : On(methods, paths, n)
  \/ \E path \in { Tpl_star, Tpl_a }, n \in 1..2 : Use(path, n)
  \/ Match("GET", Path_a)

SpecOn == Start({ RouterFor("both") }) /\ [][NextOn]_vars

\* a Router, one router to mount on it, and requests
NextRoute ==
  \/ \E tpl \in RouterTemplates : ChildRoute("get", tpl)
  \/ \E prefix \in Prefixes : Route(prefix)
  \/ AddRoute("get", Tpl_a)
  \/ \E path \in RouterPaths : Match("GET", path)

SpecRoute == Start({ RouterFor("both") }) /\ [][NextRoute]_vars

\* a Router and its groups, and requests
NextGroup ==
  \/ \E prefixes \in PrefixLists, verb \in Verbs, tpl \in RouterTemplates : GroupRoute(prefixes, verb, tpl)
  \/ \E verb \in Verbs : AddRoute(verb, Tpl_a)
  \/ \E path \in RouterPaths : Match("GET", path)

SpecGroup == Start({ RouterFor("both") }) /\ [][NextGroup]_vars

\* ------------------------------------------------------------------------
\* Route table
\* ------------------------------------------------------------------------
\* the entries a step has appended to the table
Appended == SubSeq(routes', Len(routes) + 1, Len(routes'))

AppendOnly == Len(routes) <= Len(routes') /\ SubSeq(routes', 1, Len(routes)) = routes

\* the matchers hold what the table lists, as long as they take routes
MatcherHoldsTable == router.committed = 0 => \A i \in DOMAIN router.routers : router.routers[i].regs = routes

UpperCase(method) == IF method \in { "get", "GET" } THEN "GET" ELSE IF method \in { "post", "POST" } THEN "POST" ELSE "ALL"

\* C17: a registration call (verb method, on, use) only appends to the
\* table.  An accepted on(methods, paths, handlers) or use(path, handlers)
\* appends |methods| x |paths| x |handlers| entries, one per combination,
\* path by path, method by method, handler by handler, each with the
\* upper-cased method and the path merged with the base path; a verb method
\* appends one such entry; a refused call appends nothing.
C17_Step ==
  /\ AppendOnly
  /\ \A k \in DOMAIN routes' : routes'[k].method \in { "GET", "POST", "ALL" }
  /\ (lastCall'.op \in { "on", "use", "add" } /\ lastCall'.result.kind = "error") => routes' = routes
  /\ (lastCall'.op \in { "on", "use" } /\ lastCall'.result.kind # "error") =>
       LET a == lastCall'.args
           M == Len(a.methods)
           H == Len(a.handlers)
       IN /\ Len(Appended) = M * Len(a.paths) * H
          /\ \A p \in DOMAIN a.paths, m \in DOMAIN a.methods, h \in DOMAIN a.handlers :
               Appended[((p - 1) * M + (m - 1)) * H + h] =
                 [method |-> UpperCase(a.methods[m]),
                  path |-> IF a.paths[p] = << "*" >> THEN << "/", "*" >> ELSE a.paths[p],
                  handler |-> a.handlers[h]]
  /\ (lastCall'.op = "add" /\ lastCall'.result.kind # "error") =>
       /\ Len(Appended) = 1
       /\ \E verb \in Verbs : Appended[1] = [method |-> UpperCase(verb), path |-> Tpl_a, handler |-> Len(routes) + 1]

C17_TableIsTheRegistrations == [][C17_Step]_vars

\* on(['GET', 'post'], ['/a/:i', '/a'], h) on an empty router
C17_Witness ==
  /\ lastCall.op = "on" /\ lastCall.args.methods = << "GET", "post" >> /\ lastCall.args.paths = << Tpl_ai, Tpl_a >>
  /\ routes = << [method |-> "GET", path |-> Tpl_ai, handler |-> 1], [method |-> "POST", path |-> Tpl_ai, handler |-> 1],
                 [method |-> "GET", path |-> Tpl_a, handler |-> 1], [method |-> "POST", path |-> Tpl_a, handler |-> 1] >>
  /\ MatcherHoldsTable

\* ------------------------------------------------------------------------
\* C18: an accepted parent.route(prefix, child) appends to the parent's
\* table, in the child's order, one route per route of the child, with the
\* method and the handler of the child's route and the path prefix + the
\* path the child's table holds for it (the registered path, when the child
\* has not been mounted before); the parent's matchers receive the same
\* routes.
\* ------------------------------------------------------------------------
C18_Step ==
  (lastCall'.op = "route" /\ lastCall'.result.kind # "error") =>
    LET a == lastCall'.args IN
    /\ Len(Appended) = Len(a.child)
    /\ \A j \in DOMAIN a.child :
         /\ Appended[j] = [method |-> a.child[j].method, path |-> a.prefixes[1] \o a.child[j].path, handler |-> a.child[j].handler]
         /\ a.child[j].path = a.child[j].registered => Appended[j].path = a.prefixes[1] \o a.child[j].registered
         /\ \A i \in DOMAIN router'.routers :
              \E g \in DOMAIN router'.routers[i].regs : router'.routers[i].regs[g] = Appended[j]

C19_Step ==
  (lastCall'.op = "group" /\ lastCall'.result.kind # "error") =>
    LET a == lastCall'.args
        entry == [method |-> UpperCase(a.methods[1]), path |-> Flatten(a.prefixes) \o a.paths[1], handler |-> a.handlers[1]]
    IN /\ routes' = Append(routes, entry)
       /\ \A i \in DOMAIN router'.routers : router'.routers[i].regs = routes'

C19_GroupedRoutes == [][C19_Step]_vars

\* group('/x').group('/a').get('/a') answers GET '/x/a/a'
C19_Witness ==
  /\ routes = << [method |-> "GET", path |-> << "/", "x", "/", "a", "/", "a" >>, handler |-> 1] >>
  /\ MatchReturned /\ lastCall.path = << "/", "x", "/", "a", "/", "a" >> /\ HandlersOf(lastCall.result) = << 1 >>

\* ------------------------------------------------------------------------
\* Pooling: acquire, release, clear and stats on one pool
\* ------------------------------------------------------------------------
MaxPool == 2

\* the objects handed to release(): 0 is a falsy value (null, undefined),
\* the others are objects, made by the pool's factory or not
PoolObjects == 0..(MaxPool + 1)

\* Pooling.stats()
stats(p) == [available |-> Len(p.pool), created |-> p.created, maxSize |-> p.maxSize]

\* Pooling.acquire(): the last pooled object, or a new one from the factory
acquire(p) ==
  IF Len(p.pool) > 0
  THEN [p EXCEPT !.pool = SubSeq(p.pool, 1, Len(p.pool) - 1)]
  ELSE [p EXCEPT !.created = p.created + 1]

\* Pooling.release(obj)
release(p, obj) ==
  IF obj = 0 THEN p
  ELSE IF Len(p.pool) >= p.maxSize THEN p
  ELSE [p EXCEPT !.pool = Append(p.pool, obj)]

\* Pooling.clear()
clear(p) == [p EXCEPT !.pool = << >>]

PoolCall(op, obj) == [op |-> op, obj |-> obj, before |-> pool]

Acquire ==
  /\ pool.created <= MaxPool + 1
  /\ pool' = acquire(pool)
  /\ lastCall' = PoolCall("acquire", 0)
  /\ UNCHANGED << router, routes, basePath, req, child, trie >>

Release(obj) ==
  /\ Len(pool.pool) <= MaxPool + 1
  /\ pool' = release(pool, obj)
  /\ lastCall' = PoolCall("release", obj)
  /\ UNCHANGED << router, routes, basePath, req, child, trie >>

Clear ==
  /\ pool' = clear(pool)
  /\ lastCall' = PoolCall("clear", 0)
  /\ UNCHANGED << router, routes, basePath, req, child, trie >>

NextPool ==
  \/ Acquire
  \/ \E obj \in PoolObjects : Release(obj)
  \/ Clear

\* the options of the constructor: each one absent, 0, or a small number
PoolOptions == { UNDEF } \cup (0..(MaxPool + 1))

\* new Pooling(factory, reset, options) for every options object
InitPool ==
  /\ router = RouterFor("regexp")
  /\ routes = << >>
  /\ basePath = << "/" >>
  /\ lastCall = NoCall
  /\ req = NoParam
  /\ child = << >>
  /\ trie = NewTrie
  /\ pool \in { PoolingNew(maxSize, preAlloc) : maxSize \in PoolOptions, preAlloc \in PoolOptions }

SpecPool == InitPool /\ [][NextPool]_vars

\* C21: after construction and after every acquire(), release() and
\* clear(), stats().available is at most stats().maxSize.
C21_AvailableWithinMaxSize == stats(pool).available <= stats(pool).maxSize

\* C21, second half: a release() onto a pool that holds maxSize objects or
\* more leaves the pool as it was.
C21_ReleaseOnFullDiscards ==
  (lastCall.op = "release" /\ Len(lastCall.before.pool) >= lastCall.before.maxSize) => pool = lastCall.before

\* new Pooling(factory, reset, {maxSize: 2, preAlloc: 3}) and a release()
C21_Witness ==
  /\ lastCall.op = "release" /\ lastCall.obj # 0
  /\ pool.maxSize = 2 /\ Len(pool.pool) = 3 /\ pool.created = 3

\* ------------------------------------------------------------------------
\* Pattern tree: Trie.insert calls made directly on one Trie, dry runs and
\* real insertions in any order, as the compiled matcher's build makes them
\* ------------------------------------------------------------------------
Tpl_vb == << "/", ":", "v", "/", "b" >>
Tpl_star_a == << "/", "*", "/", "a" >>
Tpl_a_star == << "/", "a", "*" >>
Tpl_u_any == << "/", ":", "u", "/", ":", "i", "{", ".", "*", "}" >>
Tpl_i_plus == << "/", ":", "i", "{", "a", "+", "}" >>
Tpl_i_group == << "/", ":", "i", "{", "(", "a", ")", "}" >>
Tpl_i_inner == << "/", ":", "i", "{", "a", "(", "b", ")", "}" >>

TreeTemplates == { Tpl_a, Tpl_ub, Tpl_va, Tpl_vb, Tpl_star_a, Tpl_a_star, Tpl_aw, Tpl_u_any, Tpl_i_plus, Tpl_i_group, Tpl_i_inner }

\* the routes the tree holds: the parameter lists the accepted real
\* insertions returned, in the order of the calls
Inserted == IF lastCall.op = "insert" THEN lastCall.inserted ELSE << >>

\* trie.insert(path, index, pathErrorCheckOnly), index being the number of
\* the route as in the build loop
Insert(path, pathErrorCheckOnly) ==
  /\ Len(Inserted) < MaxRoutes
  /\ LET Done(o) ==
           /\ trie' = [tree |-> o.tree, varIndex |-> o.varIndex]
           /\ lastCall' = [op |-> "insert", path |-> path, index |-> Len(Inserted), pathErrorCheckOnly |-> pathErrorCheckOnly,
                           before |-> trie, thrown |-> o.thrown, paramAssoc |-> o.paramMap,
                           inserted |-> IF o.thrown \/ pathErrorCheckOnly THEN Inserted
                                        ELSE Append(Inserted, [path |-> path, index |-> Len(Inserted), paramAssoc |-> o.paramMap])]
     IN Done(TrieInsert(trie, path, Len(Inserted), pathErrorCheckOnly))
  /\ UNCHANGED << router, routes, basePath, req, child, pool >>

NextTree == \E path \in TreeTemplates, pathErrorCheckOnly \in BOOLEAN : Insert(path, pathErrorCheckOnly)

\* new Trie()
SpecTree == Start({ RouterFor("regexp") }) /\ [][NextTree]_vars

\* ------------------------------------------------------------------------
\* Dry runs
\* ------------------------------------------------------------------------
DryRun == lastCall.op = "insert" /\ lastCall.pathErrorCheckOnly

RealRun == lastCall.op = "insert" /\ ~lastCall.pathErrorCheckOnly

\* C22: an insertion made with pathErrorCheckOnly = true, whether it returns
\* or raises PATH_ERROR, leaves the nodes of the tree, the index and the
\* varIndex of every node and context.varIndex as they were, and leaves the
\* parameter list it was given empty as it was given.
C22_DryRunMutatesNothing ==
  DryRun => /\ trie = lastCall.before
            /\ lastCall.paramAssoc = << >>

\* a dry run of '/:v/a' that walks the nodes of '/:u/b', among them the
\* parameter node, and returns where a real insertion would create 'a'
C22_Witness ==
  /\ DryRun /\ ~lastCall.thrown /\ lastCall.path = Tpl_va
  /\ Len(Inserted) = 1 /\ Inserted[1].path = Tpl_ub
  /\ ~TrieInsert(trie, Tpl_va, 1, FALSE).thrown
  /\ TrieInsert(trie, Tpl_va, 1, FALSE).tree # trie.tree

\* ------------------------------------------------------------------------
\* Conflicts between the routes of one tree
\* ------------------------------------------------------------------------
\* the child keys a template walks, one per token, and the parameter name
\* each token declares ('' for a literal and for a wildcard)
RECURSIVE KeysOf(_)
KeysOf(tokens) == IF tokens = << >> THEN << >> ELSE << PatternOf(Head(tokens), Tail(tokens)).regexpStr >> \o KeysOf(Tail(tokens))

RECURSIVE NamesOf(_)
NamesOf(tokens) == IF tokens = << >> THEN << >> ELSE << PatternOf(Head(tokens), Tail(tokens)).name >> \o NamesOf(Tail(tokens))

\* the token positions at which two templates reach the same node and both
\* declare a parameter there, under different names
NameClashes(p, q) ==
  LET kp == KeysOf(Tokenize(p))
      kq == KeysOf(Tokenize(q))
      np == NamesOf(Tokenize(p))
      nq == NamesOf(Tokenize(q))
  IN { k \in DOMAIN kp \cap DOMAIN kq :
         /\ SubSeq(kp, 1, k) = SubSeq(kq, 1, k)
         /\ np[k] # << >> /\ nq[k] # << >> /\ np[k] # nq[k] }

\* the routes inserted before the last call
InsertedBefore == IF RealRun /\ ~lastCall.thrown THEN SubSeq(Inserted, 1, Len(Inserted) - 1) ELSE Inserted

\* the number of parameters a template declares up to token k
ParamsUpTo(p, k) == Cardinality({ j \in 1..k : NamesOf(Tokenize(p))[j] # << >> })

EndOf(path) == KeysOf(Tokenize(path))

\* C24: a real insertion whose tokens end at a node that has a handler
\* index raises PATH_ERROR, and no call changes a handler index once it is
\* assigned.
C24_IndexAssignedOnce ==
  lastCall.op = "insert" =>
    /\ \A np \in DOMAIN lastCall.before.tree :
         lastCall.before.tree[np].index # UNDEF => trie.tree[np].index = lastCall.before.tree[np].index
    /\ (/\ RealRun
        /\ EndOf(lastCall.path) \in DOMAIN lastCall.before.tree
        /\ lastCall.before.tree[EndOf(lastCall.path)].index # UNDEF) => lastCall.thrown

\* '/a' inserted as route 0, then inserted again as route 1
C24_Witness ==
  /\ RealRun /\ lastCall.thrown /\ lastCall.path = Tpl_a /\ lastCall.index = 1
  /\ Len(Inserted) = 1 /\ Inserted[1].path = Tpl_a
  /\ trie.tree[EndOf(Tpl_a)].index = 0

\* ------------------------------------------------------------------------
\* Order of the alternation
\* ------------------------------------------------------------------------
\* the four classes of the comparator's order
KeyRank(k) == IF KeyLen(k) = 1 THEN 1 ELSE IF IsWildcardKey(k) THEN 4 ELSE IF k = LABEL_REG_EXP_STR THEN 3 ELSE 2

\* a list of keys in the stated order
Ranked(keys) ==
  \A i, j \in DOMAIN keys :
    i < j => /\ KeyRank(keys[i]) <= KeyRank(keys[j])
             /\ (KeyRank(keys[i]) = 1 /\ KeyRank(keys[j]) = 1) => KeyCode(keys[i]) < KeyCode(keys[j])
             /\ (KeyRank(keys[i]) = 2 /\ KeyRank(keys[j]) = 2) => KeyLen(keys[i]) >= KeyLen(keys[j])

\* the orders in which Node.insert accepts the keys as children of one node
Insertable(keys) ==
  \A i \in DOMAIN keys :
    IF KeyLen(keys[i]) = 1 THEN ~LiteralBlocked(SubSeq(keys, 1, i - 1)) ELSE ~PatternBlocked(SubSeq(keys, 1, i - 1))

Orders(keys) == { p \in [DOMAIN keys -> Range(keys)] : Range(p) = Range(keys) /\ Insertable(p) }

\* C25, first half: the children of every node are serialized in the
\* stated order of the four classes.
C25_Ranked == \A np \in DOMAIN trie.tree : Ranked(BuildRegExp(trie.tree).tree[np].keys)

\* C25: the children of every node are serialized in the stated order, and
\* in the same order for each order in which the same keys can be inserted.
C25_OrderIsFixed ==
  \A np \in DOMAIN trie.tree :
    /\ Ranked(BuildRegExp(trie.tree).tree[np].keys)
    /\ \A p \in Orders(trie.tree[np].keys) : SortKeys(p) = BuildRegExp(trie.tree).tree[np].keys

\* '/a/*' inserted before '/a*': the tail wildcard precedes '.*' in the
\* alternation under '/a', while the other insertion order gives the reverse
C25_Witness ==
  /\ Len(Inserted) = 2 /\ Inserted[1].path = Tpl_aw /\ Inserted[2].path = Tpl_a_star
  /\ BuildRegExp(trie.tree).tree[<< "/", "a" >>].keys = << TAIL_WILDCARD_REG_EXP_STR, ONLY_WILDCARD_REG_EXP_STR >>
  /\ SortKeys(<< ONLY_WILDCARD_REG_EXP_STR, TAIL_WILDCARD_REG_EXP_STR >>) = << ONLY_WILDCARD_REG_EXP_STR, TAIL_WILDCARD_REG_EXP_STR >>

\* ------------------------------------------------------------------------
\* Refused insertions
\* ------------------------------------------------------------------------
\* a template one of whose parameter constraints Node.insert refuses
RECURSIVE AnyRefused(_)
AnyRefused(tokens) == tokens # << >> /\ (PatternOf(Head(tokens), Tail(tokens)).refused \/ AnyRefused(Tail(tokens)))

\* C26: a real insertion that raises PATH_ERROR leaves the tree and
\* context.varIndex as they were before the call.
C26_RefusedLeavesTree == (RealRun /\ lastCall.thrown) => trie = lastCall.before

\* C26 for the refusals that come from the tree: a real insertion refused
\* for a sibling conflict or an occupied end node leaves the tree and
\* context.varIndex as they were before the call.
C26_ConflictLeavesTree == (RealRun /\ lastCall.thrown /\ ~AnyRefused(Tokenize(lastCall.path))) => trie = lastCall.before

\* '/a' refused by a tree that holds no route: the refused '/:u/:i{.*}' left
\* the nodes of '/:u/' and took variable 0
C26_Witness ==
  /\ RealRun /\ lastCall.thrown /\ lastCall.path = Tpl_a
  /\ Inserted = << >>
  /\ trie.varIndex = 1
  /\ << "/", LABEL_REG_EXP_STR, "/" >> \in DOMAIN trie.tree
  /\ ~BuildRegExp(trie.tree).never

\* the real insertion of the template of the last call into the tree as the
\* last call left it
RealAfter == TrieInsert(trie, lastCall.path, lastCall.index, FALSE)

\* C27: when a dry run returns without raising, the real insertion of the
\* same template into the same tree returns without raising.
C27_DryRunForetells == (DryRun /\ ~lastCall.thrown) => ~RealAfter.thrown

\* C27 for the templates whose constraints are all accepted
C27_DryRunForetellsConflicts == (DryRun /\ ~lastCall.thrown /\ ~AnyRefused(Tokenize(lastCall.path))) => ~RealAfter.thrown

\* the dry run of '/:u/:i{.*}' on an empty tree returns at the first
\* missing node; the real insertion reaches the constraint and raises
C27_Witness ==
  /\ DryRun /\ ~lastCall.thrown /\ lastCall.path = Tpl_u_any
  /\ trie = NewTrie /\ lastCall.before = NewTrie
  /\ RealAfter.thrown

\* ------------------------------------------------------------------------
\* Parameter association lists
\* ------------------------------------------------------------------------
\* a template with a '*' that is not its last token
MidStar(path) == \E k \in 1..(Len(Tokenize(path)) - 1) : Tokenize(path)[k] = << "*" >>

\* the [name, index] pairs of a returned list whose index is a capture
\* variable that buildRegExp gives a capture group to
PairsDefined(paramAssoc) ==
  \A k \in DOMAIN paramAssoc :
    /\ paramAssoc[k][2] # UNDEF
    /\ paramAssoc[k][2] \in DOMAIN BuildRegExp(trie.tree).paramReplacementMap

\* C28: every [name, index] pair returned by an accepted real insertion has
\* a defined capture-variable index with an entry in the parameter
\* replacement map of buildRegExp.
C28_PairsDefined == \A j \in DOMAIN Inserted : PairsDefined(Inserted[j].paramAssoc)

\* C28 for trees without a mid-path '*'
C28_PairsDefinedWithoutMidStar ==
  (\A j \in DOMAIN Inserted : ~MidStar(Inserted[j].path)) => \A j \in DOMAIN Inserted : PairsDefined(Inserted[j].paramAssoc)

\* '/*/a' created the node '[^/]+' without a variable; '/:u/b' then
\* returned the pair of 'u' with that node's missing variable
C28_Witness ==
  /\ Len(Inserted) = 2 /\ Inserted[1].path = Tpl_star_a /\ Inserted[2].path = Tpl_ub
  /\ Inserted[2].paramAssoc = << << << "u" >>, UNDEF >> >>
  /\ trie.tree[<< "/", LABEL_REG_EXP_STR >>].varIndex = UNDEF

\* ------------------------------------------------------------------------
\* Prefix-tree matcher: templates that end with '?'
\* ------------------------------------------------------------------------
Tpl_ubq == << "/", ":", "u", "/", "b", "?" >>
Path_xbq == << "/", "x", "/", "b", "?" >>

OptionalTemplates == { Tpl_a, Tpl_ai, Tpl_aiq, Tpl_ub, Tpl_ubq }
OptionalPaths == { Path_a, Path_ax, Path_xb, Path_xbq }

NextOptional ==
  \/ \E verb \in Verbs, tpl \in OptionalTemplates : AddRoute(verb, tpl)
  \/ \E method \in RequestMethods, path \in OptionalPaths : Match(method, path)

\* new Router('trie') over the templates that end with '?'
SpecOptional == Start({ RouterFor("trie") }) /\ [][NextOptional]_vars

\* the handlers stored in the prefix tree
HandlersIn(tree) == UNION { { tree[np][i].h : i \in DOMAIN tree[np] } : np \in DOMAIN tree }

\* C29: every registration made through TrieRouter.add has a handler entry
\* in the tree, and the expansion of a template that is expanded is not
\* empty.
C29_NeverDrops ==
  \A j \in DOMAIN routes :
    /\ ~checkOptionalParameter(routes[j].path).isNull => checkOptionalParameter(routes[j].path).results # << >>
    /\ routes[j].handler \in HandlersIn(router.routers[1].tree)

\* '/:u/b?' registered alone: the tree is still the empty tree, and the
\* match of '/x/b' returns nothing
C29_Witness ==
  /\ Len(routes) = 1 /\ routes[1].path = Tpl_ubq
  /\ router.routers[1].tree = PrefixTreeNew
  /\ MatchReturned /\ lastCall.path = Path_xb /\ HandlersOf(lastCall.result) = << >>

\* ------------------------------------------------------------------------
\* Mounting: what route() does to the child
\* ------------------------------------------------------------------------
\* the loop of route() in router/index.ts: every child route is registered
\* through #addRoute as a new route object under the merged path
RECURSIVE mountLoop(_, _, _)
mountLoop(st, base, j) ==
  IF j > Len(st.child) \/ st.thrown THEN st
  ELSE mountLoop(addRoute(st, basePath, st.child[j].method, mergePath(base, st.child[j].path), st.child[j].handler), base, j + 1)

\* parent.route(path, child) of router/index.ts
Mount(path) ==
  /\ child # << >>
  /\ Len(routes) + Len(child) <= MaxRoutes + 2
  /\ RegisterDone("route", [NoArgs EXCEPT !.prefixes = << path >>, !.child = child],
                  mountLoop(Registered(router, routes, FALSE, "", child), mergePath(basePath, path), 1))

NextMount ==
  \/ \E tpl \in RouterTemplates : ChildRoute("get", tpl)
  \/ \E prefix \in Prefixes : Mount(prefix)
  \/ AddRoute("get", Tpl_a)
  \/ \E path \in RouterPaths : Match("GET", path)

\* the Router of router/index.ts, whose route() copies
SpecMount == Start({ RouterFor("both") }) /\ [][NextMount]_vars

\* the routes of the parent's table that came from the child
Mounted == SelectSeq(routes, LAMBDA r : \E j \in DOMAIN child : child[j].handler = r.handler)

\* C30: after an accepted parent.route(prefix, child) every entry of
\* child.routes has the method, the path and the handler it had before the
\* call and the path it was registered with, the call appended each child
\* route under prefix + its registered path, and every route of the parent
\* that came from the child, by this mount or an earlier one, is under a
\* mount prefix + its registered path.
C30_MountLeavesChild ==
  (lastCall.op = "route" /\ lastCall.result.kind # "error") =>
    /\ child = lastCall.args.child
    /\ \A j \in DOMAIN child : child[j].path = child[j].registered
    /\ \A j \in DOMAIN child :
         routes[Len(routes) - Len(child) + j] =
           [method |-> child[j].method, path |-> lastCall.args.prefixes[1] \o child[j].registered, handler |-> child[j].handler]
    /\ \A i \in DOMAIN Mounted :
         \E prefix \in Prefixes, j \in DOMAIN child : Mounted[i].path = prefix \o child[j].registered /\ Mounted[i].handler = child[j].handler

\* child GET '/a' mounted at '/x' and then at '/a': the child's route and
\* both routes of the parent read '/a/x/a'
C30_Witness ==
  /\ lastCall.op = "route" /\ lastCall.result.kind # "error" /\ lastCall.args.prefixes = << Prefix_a >>
  /\ Len(child) = 1 /\ child[1].registered = Tpl_a /\ child[1].path = Prefix_a \o Prefix_x \o Tpl_a
  /\ Len(routes) = 2 /\ routes[1].path = Prefix_a \o Prefix_x \o Tpl_a /\ routes[2].path = Prefix_a \o Prefix_x \o Tpl_a

====
